---- MODULE Spec2Model ----
(***************************************************************************)
(* Stock ledger of the Vendigo vending dashboard.                          *)
(*                                                                         *)
(* The server (server.js, two variants kept in the repository) maps HTTP   *)
(* requests to single SQL statements against the tables products,          *)
(* machines and inventory.  The admin client (Inventory.tsx) validates     *)
(* user input, issues those requests and reloads its copy of the list.     *)
(*                                                                         *)
(* Every SQL statement is one atomic step of the store; a handler that     *)
(* issues one mutating statement is therefore one action.                  *)
(***************************************************************************)
EXTENDS Integers, FiniteSets, Sequences, TLC

(***************************************************************************)
(* Bounds of the model (not program constants).                            *)
(***************************************************************************)
MaxQty == 3        \* largest stored quantity explored
MaxDelta == 2      \* largest quantity carried by a request body
MaxInvId == 2      \* AUTO_INCREMENT values handed out for inventory.inv_id
MaxTime == 2       \* values of NOW() explored
MaxPending == 2    \* concurrent restock requests in flight
MaxProductId == 3  \* AUTO_INCREMENT values handed out for products.product_id

\* Stored quantities are explored down to one negative value: the column is a
\* signed integer and nothing in the handlers keeps it from going below zero.
MinQty == 0 - 1

(***************************************************************************)
(* Request values.  A JSON body field is absent/null, a number, or a       *)
(* string that does not parse as a number.                                 *)
(***************************************************************************)
Null == [kind |-> "null", val |-> 0]
NaNStr == [kind |-> "nan", val |-> 0]
Num(n) == [kind |-> "num", val |-> n]
Str(t) == [kind |-> "str", val |-> t]

QtyInputs == {Null, NaNStr} \cup {Num(n) : n \in MinQty..MaxDelta}
PostQtyInputs == {Null} \cup {Num(n) : n \in MinQty..MaxDelta}
IdInputs == 0..3           \* 0: absent (falsy); 3: references no row
InvIdInputs == 0..(MaxInvId + 1)   \* 0: absent (falsy)

Max(a, b) == IF a >= b THEN a ELSE b

VARIABLES
  variant,          \* which server.js is running: "rich" or "compat"
  products,         \* table products
  machines,         \* table machines
  saleItems,        \* table sale_items
  nextProductId,    \* AUTO_INCREMENT counter of products.product_id
  inventory,        \* table inventory
  nextInvId,        \* AUTO_INCREMENT counter of inventory.inv_id
  now,              \* the store's clock, NOW()
  lastResp,         \* history: method and status of the latest response to a write
  selectedMachine,  \* Inventory page: selectedMachine (0 = null)
  pageInventory,    \* Inventory page: inventory (the list last loaded)
  toast,            \* Inventory page: the latest toast shown
  lastRestockTime,  \* history: per pair, NOW() of the latest successful restock
  deleted,          \* history: rows deleted, until their pair is restocked again
  pending,          \* restock requests in flight (concurrent clients)
  restocked,        \* history: per pair, sum of the restocks completed
  expected,         \* history: per pair, initial quantity plus the deltas issued
  sales,            \* table sales
  aggResp,          \* the body of the latest response of an aggregate route
  putReqs,          \* set-quantity requests in flight, per client
  putHist,          \* history: per inv_id, quantities stored and latest write
  otherPage,        \* a second Inventory page: its machine, list and toast
  metricsReq,       \* a metrics request: queries done, results, ledger states met
  loads,            \* Inventory page: loadInventory calls in flight, list shown
  dash              \* Dashboard page: loadAll's position, page state, requests

vars == <<variant, products, machines, saleItems, nextProductId, inventory,
          nextInvId, now, lastResp,
          selectedMachine, pageInventory, toast, lastRestockTime, deleted,
          pending, restocked, expected, sales, aggResp, putReqs, putHist,
          otherPage, metricsReq, loads, dash>>

\* state touched only by the reads and by the races further down
auxVars == <<sales, aggResp, putReqs, putHist, otherPage, metricsReq, loads,
             dash>>

serverVars == <<variant, products, machines, saleItems, nextProductId, auxVars>>
pageVars == <<selectedMachine, pageInventory, toast>>
concVars == <<pending, restocked, expected>>
histVars == <<lastRestockTime, deleted>>

\* a response: method, status and the error text of its JSON body ("" if none)
Reply(op, status, error) == [op |-> op, status |-> status, error |-> error]
Resp(op, status) == Reply(op, status, "")

(***************************************************************************)
(* Reference data.                                                         *)
(***************************************************************************)
InitProducts ==
  { [product_id |-> 1, name |-> "Chips", price |-> 2, unit |-> "pcs", nulls |-> {}],
    [product_id |-> 2, name |-> "Cola", price |-> 3, unit |-> "pcs", nulls |-> {}] }

\* no handler of the server writes sale_items; the table holds what the
\* vending machines recorded
InitSaleItems == { [sale_item_id |-> 1, product_id |-> 2, qty |-> 1] }

InitMachines ==
  { [machine_id |-> 1, location |-> "Lobby", description |-> ""],
    [machine_id |-> 2, location |-> "", description |-> "Floor 2"] }

ProductIds == {p.product_id : p \in products}
MachineIds == {m.machine_id : m \in machines}
Pairs == {1, 2} \X {1, 2}
RestockReqs == {1} \X {1, 2} \X (1..MaxDelta)   \* machine_id, product_id, qty

(***************************************************************************)
(* JavaScript predicates used by the validation code.                      *)
(***************************************************************************)
IsNullish(q) == q.kind = "null"                      \* q == null
IsNaN(q) == q.kind = "nan"                           \* isNaN(q), q not null
Falsy(q) ==                                          \* !q
  \/ q.kind = "null"
  \/ (q.kind = "num" /\ q.val = 0)
  \/ (q.kind = "str" /\ q.val = "")

(***************************************************************************)
(* The store.                                                              *)
(***************************************************************************)
UniqueKey(r) == <<r.machine_id, r.product_id>>

\* the rows an INSERT of (m, p) collides with: ON DUPLICATE KEY
DuplicateRowsNone(inv, m, p) == {}
DuplicateRows(inv, m, p) == {r \in inv : UniqueKey(r) = <<m, p>>}

ForeignKeyOk(m, p) == m \in MachineIds /\ p \in ProductIds

\* ON DUPLICATE KEY UPDATE qty = COALESCE(qty,0) + VALUES(qty)
UpsertQtyOverwrite(old, v) == v
UpsertQty(old, v) == old + v

\* INSERT INTO inventory ... VALUES (?, ?, ?, NOW()) ON DUPLICATE KEY UPDATE ...
UpsertAlwaysInsert(inv, id, m, p, q, t) ==
  inv \cup { [inv_id |-> id, machine_id |-> m, product_id |-> p,
              qty |-> q, last_restock |-> t] }
UpsertKeepsTime(inv, id, m, p, q, t) ==
  IF DuplicateRows(inv, m, p) = {}
  THEN inv \cup { [inv_id |-> id, machine_id |-> m, product_id |-> p,
                   qty |-> q, last_restock |-> t] }
  ELSE { IF UniqueKey(r) = <<m, p>>
         THEN [r EXCEPT !.qty = UpsertQty(r.qty, q)]
         ELSE r : r \in inv }
Upsert(inv, id, m, p, q, t) ==
  IF DuplicateRows(inv, m, p) = {}
  THEN inv \cup { [inv_id |-> id, machine_id |-> m, product_id |-> p,
                   qty |-> q, last_restock |-> t] }
  ELSE { IF UniqueKey(r) = <<m, p>>
         THEN [r EXCEPT !.qty = UpsertQty(r.qty, q), !.last_restock = t]
         ELSE r : r \in inv }

\* UPDATE inventory SET qty = ? WHERE inv_id = ?
UpdateQtyDropsZero(inv, invId, q) ==
  { r \in { IF r.inv_id = invId THEN [r EXCEPT !.qty = q] ELSE r : r \in inv } :
      r.qty # 0 }
UpdateQtyTouchesTime(inv, invId, q) ==
  { IF r.inv_id = invId THEN [r EXCEPT !.qty = q, !.last_restock = now] ELSE r :
      r \in inv }
UpdateQtyCreates(inv, invId, q) ==
  IF \E r \in inv : r.inv_id = invId
  THEN { IF r.inv_id = invId THEN [r EXCEPT !.qty = q] ELSE r : r \in inv }
  ELSE inv \cup {[inv_id |-> invId, machine_id |-> 1, product_id |-> 1,
                  qty |-> q, last_restock |-> 0]}
UpdateQtyAdds(inv, invId, q) ==
  { IF r.inv_id = invId THEN [r EXCEPT !.qty = r.qty + q] ELSE r : r \in inv }
UpdateQty(inv, invId, q) ==
  { IF r.inv_id = invId THEN [r EXCEPT !.qty = q] ELSE r : r \in inv }

\* DELETE FROM inventory WHERE inv_id = ?
DeleteRowNothing(inv, invId) == inv
DeleteRow(inv, invId) == {r \in inv : r.inv_id # invId}

\* SELECT ... FROM inventory i JOIN products p ... WHERE i.machine_id = ?
\* (the ORDER BY p.name of the result is not represented: the rows are a set)
ListInventory(inv, prods, mId) ==
  { [inv_id |-> r.inv_id, machine_id |-> r.machine_id,
     product_id |-> r.product_id, product_name |-> p.name,
     price |-> p.price, qty |-> r.qty] :
       <<r, p>> \in { x \in inv \X prods :
                        x[1].product_id = x[2].product_id /\ x[1].machine_id = mId } }

(***************************************************************************)
(* Validation of the request bodies.                                       *)
(***************************************************************************)
\* PUT /api/inventory/:invId : if (qty == null || isNaN(qty)) 400
PutRejected(qty) == IsNullish(qty) \/ IsNaN(qty)

\* POST /api/inventory : rich  !machine_id || !product_id || qty == null
\*                       compat !machine_id || !product_id || !qty
PostRejected(v, m, p, qty) ==
  \/ m = 0
  \/ p = 0
  \/ IF v = "rich" THEN IsNullish(qty) ELSE Falsy(qty)

\* DELETE /api/inventory/:invId : if (!invId) 400
DeleteRejected(invId) == invId = 0

InBounds(q) == q >= MinQty /\ q <= MaxQty


(***************************************************************************)
(* Responses.  The status a handler answers with is decided by the request *)
(* and the state it runs in.                                               *)
(***************************************************************************)
\* POST /api/inventory: 400 from validation, 500 from the error handler
\* when the store rejects the statement, 201 otherwise
PostStatus(m, p, qty) ==
  IF PostRejected(variant, m, p, qty) THEN 400
  ELSE IF ~ForeignKeyOk(m, p) THEN 500
  ELSE 201

\* PUT /api/inventory/:invId
PutStatus(qty) == IF PutRejected(qty) THEN 400 ELSE 200

\* DELETE /api/inventory/:invId; the compat server has no such route
DeleteStatus(invId) ==
  IF variant = "compat" THEN 404
  ELSE IF DeleteRejected(invId) THEN 400
  ELSE 200

Ok(status) == status >= 200 /\ status <= 299        \* res.ok

\* the fixed text of the error handler, and the text the store attaches to a
\* statement it rejects (error.message)
GenericError == "Internal Server Error"
ForeignKeyMessage == "Cannot add or update a child row: a foreign key constraint fails"

\* the error field of the response body
PostError(m, p, qty) ==
  IF PostStatus(m, p, qty) = 400 THEN "machine_id, product_id, qty required"
  ELSE IF PostStatus(m, p, qty) = 500 THEN GenericError
  ELSE ""

PutError(qty) == IF PutStatus(qty) = 400 THEN "qty required" ELSE ""

DeleteError(invId) == IF DeleteStatus(invId) = 400 THEN "invId required" ELSE ""

(***************************************************************************)
(* Initial state: the reference tables are populated, the ledger is empty, *)
(* no page has loaded anything, no request is in flight.                   *)
(***************************************************************************)
Fresh == [clean |-> TRUE, sum |-> 0, raced |-> FALSE]
NoToast == [title |-> "", removeQty |-> 0, newQty |-> 0]

\* day: the number of days since the sale
InitSales == { [sale_id |-> 1, total_amount |-> 3, day |-> 1] }
NoBody == [route |-> "none"]

\* the Dashboard before its effect runs: useState(null), useState([]),
\* useState(true)
NoMetrics == [total_products |-> Null, total_machines |-> Null,
              total_stock_quantity |-> Null, total_stock_value |-> Null]
IdleDash == [pc |-> "mount", loading |-> TRUE, metrics |-> NoMetrics,
             revenueTrend |-> <<>>, machineDist |-> <<>>, toast |-> "",
             requested |-> {}, failed |-> {}]

\* no loadInventory call yet
NoLoads == [inflight |-> {}, shownFor |-> 0, failed |-> FALSE]

\* no metrics request yet
IdleMetrics == [pc |-> 0, vals |-> <<>>, seen |-> {}, mutated |-> FALSE]

\* a page that has not loaded anything
IdlePage == [selectedMachine |-> 0, inventory |-> {}, toast |-> NoToast]

\* clients with a set-quantity request of their own
MaxClients == 2
Clients == 1..MaxClients
IdlePut == [pc |-> "idle", inv_id |-> 0, qty |-> 0, status |-> 0, rows |-> {}]
NoWrites == [stored |-> {<<r.inv_id, r.qty>> : r \in inventory}, last |-> {}]

\* everything but the tables
InitIdle ==
  /\ now = 1
  /\ lastResp = Resp("none", 0)
  /\ selectedMachine = 0
  /\ pageInventory = {}
  /\ toast = NoToast
  /\ lastRestockTime = [pr \in Pairs |-> 0]
  /\ deleted = {}
  /\ pending = [rq \in RestockReqs |-> 0]
  /\ restocked = [pr \in Pairs |-> Fresh]
  /\ expected = [pr \in Pairs |-> 0]
  /\ aggResp = NoBody
  /\ putReqs = [c \in Clients |-> IdlePut]
  /\ putHist = NoWrites
  /\ otherPage = IdlePage
  /\ metricsReq = IdleMetrics
  /\ loads = NoLoads
  /\ dash = IdleDash

InitCommon ==
  /\ products = InitProducts
  /\ machines = InitMachines
  /\ saleItems = InitSaleItems
  /\ sales = InitSales
  /\ nextProductId = 3
  /\ inventory = {}
  /\ nextInvId = 1
  /\ InitIdle

Init ==
  /\ variant = "rich"
  /\ InitCommon

(***************************************************************************)
(* Server handlers.  Each ...Txn is the handler's effect on the store      *)
(* the history variables record what the request did.                      *)
(***************************************************************************)
RowsById(invId) == {r \in inventory : r.inv_id = invId}

\* app.post("/api/inventory")
PostInventoryTxn(m, p, qty) ==
  /\ lastResp' = Reply("POST", PostStatus(m, p, qty), PostError(m, p, qty))
  /\ IF PostStatus(m, p, qty) # 201
     THEN UNCHANGED <<inventory, nextInvId, histVars>>
     ELSE /\ inventory' = Upsert(inventory, nextInvId, m, p, qty.val, now)
          /\ \A r \in inventory' : InBounds(r.qty)
          /\ nextInvId <= MaxInvId \/ DuplicateRows(inventory, m, p) # {}
          /\ nextInvId' = IF \E r \in inventory' : r.inv_id = nextInvId
                           THEN nextInvId + 1 ELSE nextInvId
          /\ lastRestockTime' = [lastRestockTime EXCEPT ![<<m, p>>] = now]
          /\ deleted' = {d \in deleted : d.pair # <<m, p>>}

\* app.put("/api/inventory/:invId")
PutInventoryTxn(invId, qty) ==
  /\ lastResp' = Reply("PUT", PutStatus(qty), PutError(qty))
  /\ IF PutStatus(qty) # 200
     THEN UNCHANGED <<inventory, nextInvId, histVars>>
     ELSE /\ inventory' = UpdateQty(inventory, invId, qty.val)
          /\ \A r \in inventory' : InBounds(r.qty)
          /\ UNCHANGED <<nextInvId, histVars>>

\* app.delete("/api/inventory/:invId")
DeleteInventoryTxn(invId) ==
  /\ lastResp' = Reply("DELETE", DeleteStatus(invId), DeleteError(invId))
  /\ IF DeleteStatus(invId) # 200
     THEN UNCHANGED <<inventory, nextInvId, histVars>>
     ELSE /\ inventory' = DeleteRow(inventory, invId)
          /\ lastRestockTime' = [pr \in Pairs |->
                             IF \E r \in RowsById(invId) : UniqueKey(r) = pr
                             THEN 0 ELSE lastRestockTime[pr]]
          /\ deleted' = deleted \cup
                {[inv_id |-> r.inv_id, pair |-> UniqueKey(r)] : r \in RowsById(invId)}
          /\ UNCHANGED nextInvId

\* Requests issued by any client of the API.
PostInventory(m, p, qty) ==
  /\ PostInventoryTxn(m, p, qty)
  /\ UNCHANGED <<serverVars, now, pageVars, concVars>>

PutInventory(invId, qty) ==
  /\ PutInventoryTxn(invId, qty)
  /\ UNCHANGED <<serverVars, now, pageVars, concVars>>

DeleteInventory(invId) ==
  /\ DeleteInventoryTxn(invId)
  /\ UNCHANGED <<serverVars, now, pageVars, concVars>>

\* Time passes between statements.
Tick ==
  /\ now < MaxTime
  /\ now' = now + 1
  /\ UNCHANGED <<serverVars, inventory, nextInvId, lastResp, pageVars, histVars,
                 concVars>>

\* A restock naming an absent or unknown id is answered from the ids alone
\* (400 or 500): one quantity stands for all of them.
PostInputs ==
  { x \in IdInputs \X IdInputs \X PostQtyInputs :
      (x[1] \in {1, 2} /\ x[2] \in {1, 2}) \/ x[3] = Num(1) }

Next ==
  \/ \E x \in PostInputs : PostInventory(x[1], x[2], x[3])
  \/ \E invId \in InvIdInputs, qty \in QtyInputs : PutInventory(invId, qty)
  \/ \E invId \in InvIdInputs : DeleteInventory(invId)

Spec == Init /\ [][Next]_vars

(***************************************************************************)
(* The ledger with the clock running.  Requests are the well-formed ones   *)
(* for the products of machine 1, so that the values of last_restock can   *)
(* be explored.                                                            *)
(***************************************************************************)
ClockQty == {Num(0), Num(1)}

NextClock ==
  \/ Tick
  \/ \E p \in ProductIds, qty \in ClockQty : PostInventory(1, p, qty)
  \/ \E invId \in 1..MaxInvId, qty \in ClockQty : PutInventory(invId, qty)
  \/ \E invId \in 1..MaxInvId : DeleteInventory(invId)

SpecClock == Init /\ [][NextClock]_vars

(***************************************************************************)
(* Concurrent restocks.  Clients send POST /api/inventory requests; the    *)
(* server runs the upsert of a request in flight at some later step, in    *)
(* any order.  A PUT between batches sets the quantity the next batch      *)
(* starts from.  pending counts the requests in flight of each content.    *)
(***************************************************************************)
PairOf(rq) == <<rq[1], rq[2]>>

InFlight == {rq \in RestockReqs : pending[rq] > 0}

PendingFor(pr) == {rq \in InFlight : PairOf(rq) = pr}

RECURSIVE CountAll(_)
CountAll(S) ==
  IF S = {} THEN 0
  ELSE LET rq == CHOOSE x \in S : TRUE IN pending[rq] + CountAll(S \ {rq})

\* handleRestock / any client: fetch(POST /api/inventory) is sent
IssueRestock(m, p, d) ==
  /\ CountAll(RestockReqs) < MaxPending
  /\ ForeignKeyOk(m, p)
  /\ expected[<<m, p>>] + d <= MaxQty
  /\ Cardinality({UniqueKey(r) : r \in inventory}
                 \cup {PairOf(rq) : rq \in InFlight} \cup {<<m, p>>}) <= MaxInvId
  /\ pending' = [pending EXCEPT ![<<m, p, d>>] = @ + 1]
  /\ expected' = [expected EXCEPT ![<<m, p>>] = @ + d]
  /\ restocked' = [restocked EXCEPT ![<<m, p>>].raced =
                     @ \/ PendingFor(<<m, p>>) # {}]
  /\ UNCHANGED <<serverVars, inventory, nextInvId, now, lastResp, pageVars, histVars>>

\* the server runs the handler of a request in flight
ServeRestock(rq) ==
  /\ pending[rq] > 0
  /\ PostInventoryTxn(rq[1], rq[2], Num(rq[3]))
  /\ pending' = [pending EXCEPT ![rq] = @ - 1]
  /\ restocked' = [restocked EXCEPT ![PairOf(rq)].sum =
                     IF restocked[PairOf(rq)].clean THEN @ + rq[3] ELSE @]
  /\ UNCHANGED <<serverVars, now, pageVars, expected>>

\* a PUT on a record no restock is in flight for
SetBase(invId, q) ==
  /\ RowsById(invId) # {}
  /\ \A r \in RowsById(invId) : PendingFor(UniqueKey(r)) = {}
  /\ PutInventoryTxn(invId, Num(q))
  /\ expected' = [pr \in Pairs |->
                    IF \E r \in RowsById(invId) : UniqueKey(r) = pr
                    THEN q ELSE expected[pr]]
  /\ restocked' = [pr \in Pairs |->
                    IF \E r \in RowsById(invId) : UniqueKey(r) = pr
                    THEN [clean |-> FALSE, sum |-> 0, raced |-> FALSE]
                    ELSE restocked[pr]]
  /\ UNCHANGED <<serverVars, now, pageVars, pending>>

NextRestock ==
  \/ \E rq \in RestockReqs : IssueRestock(rq[1], rq[2], rq[3])
  \/ \E rq \in RestockReqs : ServeRestock(rq)
  \/ \E invId \in 1..MaxInvId, q \in 0..MaxDelta : SetBase(invId, q)

SpecRestock == Init /\ [][NextRestock]_vars

(***************************************************************************)
(* The Inventory page (Inventory.tsx) next to other clients of the API.    *)
(* Text typed into window.prompt is a sequence of characters.              *)
(***************************************************************************)
IsDigit(c) == c \in {"0", "1", "2", "3", "4", "5", "6", "7", "8", "9"}

DigitVal(c) ==
  CASE c = "0" -> 0 [] c = "1" -> 1 [] c = "2" -> 2 [] c = "3" -> 3
    [] c = "4" -> 4 [] c = "5" -> 5 [] c = "6" -> 6 [] c = "7" -> 7
    [] c = "8" -> 8 [] c = "9" -> 9

RECURSIVE TrimLeft(_)
TrimLeft(s) ==
  IF s = <<>> THEN s
  ELSE IF Head(s) = " " THEN TrimLeft(Tail(s)) ELSE s

RECURSIVE TrimRight(_)
TrimRight(s) ==
  IF s = <<>> THEN s
  ELSE IF s[Len(s)] = " " THEN TrimRight(SubSeq(s, 1, Len(s) - 1)) ELSE s

\* String.prototype.trim
Trim(s) == TrimRight(TrimLeft(s))

\* String.prototype.toLowerCase
ToLowerCase(s) ==
  [i \in 1..Len(s) |->
     CASE s[i] = "A" -> "a" [] s[i] = "L" -> "l" [] s[i] = "X" -> "x"
       [] OTHER -> s[i]]

\* the value of the longest prefix of digits, given the value read so far
RECURSIVE DigitsValue(_, _)
DigitsValue(s, acc) ==
  IF s = <<>> \/ ~IsDigit(Head(s)) THEN acc
  ELSE DigitsValue(Tail(s), 10 * acc + DigitVal(Head(s)))

\* parseInt(s, 10) of a trimmed string: an optional sign, then the longest
\* prefix of digits; NaN when there is no digit
ParseInt(s) ==
  LET neg == s # <<>> /\ Head(s) = "-"
      body == IF s # <<>> /\ Head(s) \in {"-", "+"} THEN Tail(s) ELSE s
  IN IF body = <<>> \/ ~IsDigit(Head(body))
     THEN [nan |-> TRUE, val |-> 0]
     ELSE [nan |-> FALSE,
           val |-> IF neg THEN 0 - DigitsValue(body, 0) ELSE DigitsValue(body, 0)]

\* what the user answers to window.prompt: null (cancel) or a text
PromptInputs ==
  {[cancelled |-> TRUE, text |-> <<>>]} \cup
  {[cancelled |-> FALSE, text |-> t] :
     t \in { <<>>, <<" ">>, <<"a", "l", "l">>, <<" ", "A", "l", "l", " ">>,
             <<"0">>, <<" ", "2">>, <<"1", "5">>, <<"-", "1">>,
             <<"x">>, <<"2", "x">> }}

\* api.ts getInventory: the row as the client library returns it
GetInventoryItem(row) ==
  [id |-> row.inv_id, product_id |-> row.product_id,
   product_name |-> row.product_name, quantity |-> row.qty, price |-> row.price]

\* Inventory.tsx normalizeInventoryItem
NormalizeInventoryItem(raw) ==
  [id |-> raw.id, product_name |-> raw.product_name, price |-> raw.price,
   quantity |-> raw.quantity]

\* loadInventory(machineId) against the ledger inv
LoadedInventory(inv, machineId) ==
  {NormalizeInventoryItem(GetInventoryItem(row)) :
     row \in ListInventory(inv, products, machineId)}

\* loadMachines: the first machine is selected, and the effect loads its list
LoadMachines ==
  /\ selectedMachine = 0
  /\ MachineIds # {}
  /\ selectedMachine' = CHOOSE m \in MachineIds : \A o \in MachineIds : m <= o
  /\ pageInventory' = LoadedInventory(inventory, selectedMachine')
  /\ UNCHANGED <<serverVars, inventory, nextInvId, now, lastResp, toast,
                 histVars, concVars>>

\* onValueChange of the machine select, and the effect on selectedMachine
SelectMachine(m) ==
  /\ selectedMachine # 0
  /\ m \in MachineIds
  /\ m # selectedMachine
  /\ selectedMachine' = m
  /\ pageInventory' = LoadedInventory(inventory, m)
  /\ UNCHANGED <<serverVars, inventory, nextInvId, now, lastResp, toast,
                 histVars, concVars>>

\* handleRemove: the text is a number of units to remove
IsRemoveUnits(mode) ==
  /\ ~mode.cancelled
  /\ ToLowerCase(Trim(mode.text)) # <<>>
  /\ ToLowerCase(Trim(mode.text)) # <<"a", "l", "l">>
  /\ ~ParseInt(ToLowerCase(Trim(mode.text))).nan
  /\ ParseInt(ToLowerCase(Trim(mode.text))).val >= 0

RemoveQty(mode) == ParseInt(ToLowerCase(Trim(mode.text))).val

\* const newQty = Math.max(0, (item.quantity ?? 0) - removeQty)
NewQtyFromStored(item, removeQty) ==
  Max(0, (CHOOSE r \in inventory : r.inv_id = item.id).qty - removeQty)
NewQtyUnclamped(item, removeQty) == item.quantity - removeQty
NewQty(item, removeQty) == Max(0, item.quantity - removeQty)

\* window.confirm is asked only when the text is 'all'
ConfirmInputs(mode) ==
  IF ToLowerCase(Trim(mode.text)) = <<"a", "l", "l">> THEN BOOLEAN ELSE {TRUE}

\* handleRemove(item), with the answers to window.prompt and window.confirm
HandleRemove(item, mode, conf) ==
  /\ selectedMachine # 0
  /\ item \in pageInventory
  /\ ~mode.cancelled
  /\ ToLowerCase(Trim(mode.text)) # <<>>
  /\ IF ToLowerCase(Trim(mode.text)) = <<"a", "l", "l">>
     THEN /\ conf
          /\ DeleteInventoryTxn(item.id)
          /\ IF Ok(DeleteStatus(item.id))
             THEN /\ pageInventory' = LoadedInventory(inventory', selectedMachine)
                  /\ toast' = [title |-> "Success", removeQty |-> 0, newQty |-> 0]
             ELSE /\ toast' = [title |-> "Error", removeQty |-> 0, newQty |-> 0]
                  /\ UNCHANGED pageInventory
     ELSE IF IsRemoveUnits(mode)
          THEN /\ PutInventoryTxn(item.id, Num(NewQty(item, RemoveQty(mode))))
               /\ pageInventory' = LoadedInventory(inventory', selectedMachine)
               /\ toast' = [title |-> "Success", removeQty |-> RemoveQty(mode),
                            newQty |-> NewQty(item, RemoveQty(mode))]
          ELSE /\ toast' = [title |-> "Validation", removeQty |-> 0, newQty |-> 0]
               /\ UNCHANGED <<inventory, nextInvId, lastResp, histVars,
                              pageInventory>>
  /\ UNCHANGED <<serverVars, now, selectedMachine, concVars>>

NextPage ==
  \/ LoadMachines
  \/ \E m \in MachineIds : SelectMachine(m)
  \/ \E item \in pageInventory, mode \in PromptInputs :
       \E conf \in ConfirmInputs(mode) : HandleRemove(item, mode, conf)
  \/ \E m \in MachineIds, d \in 1..MaxDelta : PostInventory(m, 1, Num(d))
  \/ \E invId \in 1..MaxInvId : DeleteInventory(invId)

SpecPage == Init /\ [][NextPage]_vars

(***************************************************************************)
(* The catalog.  Products are created, updated and deleted while the       *)
(* ledger of machine 1 is restocked and emptied.                           *)
(***************************************************************************)
\* req.body of POST /api/products and PUT /api/products/:id
ProductBody(name, price, unit) == [name |-> name, price |-> price, unit |-> unit]

ProductBodies ==
  { ProductBody(Str("Gum"), Num(2), Str("box")),
    ProductBody(Str("Gum"), Num(0), Null),
    ProductBody(Null, Num(2), Null),
    ProductBody(Str(""), Num(2), Str("box")),
    ProductBody(Str("Gum"), Null, Str("box")) }

ProductColumns == {"name", "price", "unit"}

\* the columns a statement binds NULL to
NullColumns(body) == {c \in ProductColumns : IsNullish(body[c])}

\* unit || "pcs"
DefaultUnit(unit) == IF Falsy(unit) THEN Str("pcs") ELSE unit

\* the row a statement writes: a NULL column reads back as the empty text / 0
ProductRow(id, body) ==
  [product_id |-> id,
   name |-> IF IsNullish(body.name) THEN "" ELSE body.name.val,
   price |-> IF IsNullish(body.price) THEN 0 ELSE body.price.val,
   unit |-> IF IsNullish(body.unit) THEN "" ELSE body.unit.val,
   nulls |-> NullColumns(body)]

\* if (!name || price == null) 400
CreateRejectedFalsyPrice(body) == Falsy(body.name) \/ Falsy(body.price)
CreateRejected(body) == Falsy(body.name) \/ IsNullish(body.price)

\* rows of inventory or sale_items that reference the product
ProductReferences(id) ==
  {r \in inventory : r.product_id = id} \cup {si \in saleItems : si.product_id = id}

RestrictMessage == "Cannot delete or update a parent row: a foreign key constraint fails"
UnavailableMessage == "connect ECONNREFUSED"

\* POST /api/products
PostProductStatus(body) == IF CreateRejected(body) THEN 400 ELSE 200

PostProductError(body) ==
  IF CreateRejected(body) THEN "Name and price are required" ELSE ""

\* PUT /api/products/:id; notNull: the columns of products are declared NOT NULL
PutProductStatus(id, body, notNull) ==
  IF notNull /\ NullColumns(body) # {} /\ id \in ProductIds THEN 500 ELSE 200

PutProductError(id, body, notNull) ==
  IF PutProductStatus(id, body, notNull) = 500 THEN GenericError ELSE ""

\* DELETE /api/products/:id: catch (error) 400 { error: error.message }
DeleteProductStatus(id) == IF ProductReferences(id) # {} THEN 400 ELSE 200

DeleteProductErrorGeneric(id) ==
  IF ProductReferences(id) # {} THEN GenericError ELSE ""
DeleteProductError(id) ==
  IF ProductReferences(id) # {} THEN RestrictMessage ELSE ""

\* app.post("/api/products")
PostProductTxnFallsThrough(body) ==
  /\ lastResp' = Reply("POST products", PostProductStatus(body), PostProductError(body))
  /\ nextProductId <= MaxProductId
  /\ products' = products \cup
       {ProductRow(nextProductId, [body EXCEPT !.unit = DefaultUnit(body.unit)])}
  /\ nextProductId' = nextProductId + 1
PostProductTxn(body) ==
  /\ lastResp' = Reply("POST products", PostProductStatus(body), PostProductError(body))
  /\ IF PostProductStatus(body) # 200
     THEN UNCHANGED <<products, nextProductId>>
     ELSE /\ nextProductId <= MaxProductId
          /\ products' = products \cup
               {ProductRow(nextProductId, [body EXCEPT !.unit = DefaultUnit(body.unit)])}
          /\ nextProductId' = nextProductId + 1

\* app.put("/api/products/:id")
PutProductTxn(id, body, notNull) ==
  /\ lastResp' = Reply("PUT products", PutProductStatus(id, body, notNull),
                       PutProductError(id, body, notNull))
  /\ IF PutProductStatus(id, body, notNull) # 200
     THEN UNCHANGED <<products, nextProductId>>
     ELSE /\ products' = { IF pr.product_id = id THEN ProductRow(id, body) ELSE pr :
                             pr \in products }
          /\ UNCHANGED nextProductId

\* app.delete("/api/products/:id")
DeleteProductTxn(id) ==
  /\ lastResp' = Reply("DELETE products", DeleteProductStatus(id), DeleteProductError(id))
  /\ IF DeleteProductStatus(id) # 200
     THEN UNCHANGED <<products, nextProductId>>
     ELSE /\ products' = {pr \in products : pr.product_id # id}
          /\ UNCHANGED nextProductId

catalogFrame == <<variant, machines, saleItems, inventory, nextInvId, now,
                  pageVars, concVars, histVars, auxVars>>

PostProduct(body) == PostProductTxn(body) /\ UNCHANGED catalogFrame

PutProduct(id, body, notNull) ==
  PutProductTxn(id, body, notNull) /\ UNCHANGED catalogFrame

DeleteProduct(id) == DeleteProductTxn(id) /\ UNCHANGED catalogFrame

\* requests the validation of the inventory routes answers 400
RejectedPosts == {<<0, 1, Num(1)>>, <<1, 0, Num(1)>>, <<1, 1, Null>>}

\* the products updated: one of the initial catalog, one created later
UpdateIds == {1, MaxProductId}

NextCatalog ==
  \/ \E body \in ProductBodies : PostProduct(body)
  \/ \E id \in UpdateIds, body \in ProductBodies, notNull \in BOOLEAN :
       PutProduct(id, body, notNull)
  \/ \E id \in 1..MaxProductId : DeleteProduct(id)
  \/ PostInventory(1, 1, Num(1))
  \/ \E x \in RejectedPosts : PostInventory(x[1], x[2], x[3])
  \/ \E invId \in 1..MaxInvId, qty \in {Null, NaNStr} : PutInventory(invId, qty)
  \/ \E invId \in 0..MaxInvId : DeleteInventory(invId)

SpecCatalog == Init /\ [][NextCatalog]_vars

(***************************************************************************)
(* Store failures.  pool.query can reject for reasons that are neither     *)
(* validation nor a constraint (the store is unavailable): the statement   *)
(* then has no effect and the handler's catch runs.  stmt is the number of *)
(* the statement of the handler that fails.                                *)
(***************************************************************************)
ValidBody == ProductBody(Str("Gum"), Num(2), Str("box"))

\* POST /api/inventory: the upsert fails, next(e)
FailPostInventory(m, p, qty) ==
  /\ ~PostRejected(variant, m, p, qty)
  /\ lastResp' = Reply("POST", 500, GenericError)
  /\ UNCHANGED <<serverVars, inventory, nextInvId, now, pageVars, concVars, histVars>>

\* PUT /api/inventory/:invId: the UPDATE (1) or the SELECT after it (2) fails
FailPutInventory(invId, qty, stmt) ==
  /\ ~PutRejected(qty)
  /\ lastResp' = Reply("PUT", 500, GenericError)
  /\ IF stmt = 1
     THEN UNCHANGED inventory
     ELSE /\ inventory' = UpdateQty(inventory, invId, qty.val)
          /\ \A r \in inventory' : InBounds(r.qty)
  /\ UNCHANGED <<serverVars, nextInvId, now, pageVars, concVars, histVars>>

\* DELETE /api/inventory/:invId: the DELETE fails, next(e)
FailDeleteInventory(invId) ==
  /\ variant = "rich"
  /\ ~DeleteRejected(invId)
  /\ lastResp' = Reply("DELETE", 500, GenericError)
  /\ UNCHANGED <<serverVars, inventory, nextInvId, now, pageVars, concVars, histVars>>

\* POST /api/products: the INSERT fails, next(e)
FailPostProduct(body) ==
  /\ ~CreateRejected(body)
  /\ lastResp' = Reply("POST products", 500, GenericError)
  /\ UNCHANGED <<products, nextProductId, catalogFrame>>

\* PUT /api/products/:id: the UPDATE fails, next(e)
FailPutProduct(id, body) ==
  /\ lastResp' = Reply("PUT products", 500, GenericError)
  /\ UNCHANGED <<products, nextProductId, catalogFrame>>

\* DELETE /api/products/:id: the DELETE fails, catch (error) 400 error.message
FailDeleteProduct(id) ==
  /\ lastResp' = Reply("DELETE products", 400, UnavailableMessage)
  /\ UNCHANGED <<products, nextProductId, catalogFrame>>

\* the requests served while the store works
NextServed ==
  \/ PostProduct(ValidBody)
  \/ PutProduct(1, ValidBody, FALSE)
  \/ \E id \in 1..MaxProductId : DeleteProduct(id)
  \/ PostInventory(1, 1, Num(1))
  \/ \E invId \in 1..MaxInvId, q \in 0..1 : PutInventory(invId, Num(q))
  \/ \E invId \in 1..MaxInvId : DeleteInventory(invId)

\* the requests during which a statement fails
NextFailed ==
  \/ FailPostProduct(ValidBody)
  \/ FailPutProduct(1, ValidBody)
  \/ \E id \in 1..MaxProductId : FailDeleteProduct(id)
  \/ FailPostInventory(1, 1, Num(1))
  \/ \E invId \in 1..MaxInvId, q \in 0..1, stmt \in {1, 2} :
       FailPutInventory(invId, Num(q), stmt)
  \/ \E invId \in 1..MaxInvId : FailDeleteInventory(invId)

NextFaults == NextServed \/ NextFailed

SpecFaults == Init /\ [][NextFaults]_vars

(***************************************************************************)
(* The wire.  A request body is a JSON object: a function from field names *)
(* to values.  The server reads the fields it destructures; the clients    *)
(* (the library api.ts and the Inventory page) choose the names they send. *)
(***************************************************************************)
\* const { machine_id, product_id, qty } = req.body
Field(body, f) == IF f \in DOMAIN body THEN body[f] ELSE Null

IdOf(v) == IF v.kind = "num" THEN v.val ELSE 0

\* the server receives the body of a PUT /api/inventory/:invId
ServePut(invId, body) == PutInventoryTxn(invId, Field(body, "qty"))

\* the server receives the body of a POST /api/inventory
ServePost(body) ==
  PostInventoryTxn(IdOf(Field(body, "machine_id")), IdOf(Field(body, "product_id")),
                   Field(body, "qty"))

serveFrame == <<serverVars, now, concVars>>

\* api.ts updateInventory(invId, quantity)
UpdateInventoryApi(invId, quantity) ==
  /\ ServePut(invId, [quantity |-> Num(quantity)])
  /\ UNCHANGED <<serveFrame, pageVars>>

\* api.ts restockInventory(machineId, productId, quantity)
RestockInventoryApi(machineId, productId, quantity) ==
  /\ ServePost([machine_id |-> Num(machineId), product_id |-> Num(productId),
                quantity |-> Num(quantity)])
  /\ UNCHANGED <<serveFrame, pageVars>>

Toast(title) == [title |-> title, removeQty |-> 0, newQty |-> 0]

\* Inventory.tsx saveEdit, with the page's editingId (set by startEdit) and
\* editQuantity (set by the input's onChange: a number or NaN)
SaveEdit(editingId, editQuantity) ==
  /\ editingId # 0
  /\ selectedMachine # 0
  /\ LET qty == IF editQuantity.kind = "num" THEN editQuantity.val ELSE 0
     IN IF qty < 0
        THEN /\ toast' = Toast("Validation")
             /\ UNCHANGED <<inventory, nextInvId, lastResp, histVars, pageInventory>>
        ELSE /\ ServePut(editingId, [qty |-> Num(qty)])
             /\ IF Ok(lastResp'.status)
                THEN /\ pageInventory' = LoadedInventory(inventory', selectedMachine)
                     /\ toast' = Toast("Success")
                ELSE /\ toast' = Toast("Error")
                     /\ UNCHANGED pageInventory
  /\ UNCHANGED <<serveFrame, selectedMachine>>

\* what the restock form holds: the product chosen and the quantity typed
RestockForms ==
  { [productId |-> pt, quantity |-> qt] :
      pt \in {<<>>, <<"1">>}, qt \in {<<>>, <<"0">>, <<"1">>, <<"2">>} }

\* Inventory.tsx handleRestock
HandleRestock(restockForm) ==
  LET productId == ParseInt(restockForm.productId)
      qty == ParseInt(restockForm.quantity)
  IN /\ IF \/ selectedMachine = 0
           \/ productId.nan \/ productId.val = 0
           \/ qty.nan \/ qty.val <= 0
        THEN /\ toast' = Toast("Error")
             /\ UNCHANGED <<inventory, nextInvId, lastResp, histVars, pageInventory>>
        ELSE /\ ServePost([machine_id |-> Num(selectedMachine),
                           product_id |-> Num(productId.val),
                           qty |-> Num(qty.val)])
             /\ IF Ok(lastResp'.status)
                THEN /\ pageInventory' = LoadedInventory(inventory', selectedMachine)
                     /\ toast' = Toast("Success")
                ELSE /\ toast' = Toast("Error")
                     /\ UNCHANGED pageInventory
     /\ UNCHANGED <<serveFrame, selectedMachine>>

EditQuantities == {NaNStr} \cup {Num(n) : n \in MinQty..MaxDelta}

NextWire ==
  \/ LoadMachines
  \/ \E item \in pageInventory, q \in EditQuantities : SaveEdit(item.id, q)
  \/ \E item \in pageInventory, mode \in PromptInputs :
       \E conf \in ConfirmInputs(mode) : HandleRemove(item, mode, conf)
  \/ \E form \in RestockForms : HandleRestock(form)
  \/ \E invId \in 1..MaxInvId, q \in 0..MaxDelta : UpdateInventoryApi(invId, q)
  \/ \E q \in 1..MaxDelta : RestockInventoryApi(1, 1, q)

SpecWire == Init /\ [][NextWire]_vars

(***************************************************************************)
(* The Inventory page alone.  The ledger is written only by the requests   *)
(* its handlers send.                                                      *)
(***************************************************************************)
NextHandlers ==
  \/ LoadMachines
  \/ \E m \in MachineIds : SelectMachine(m)
  \/ \E item \in pageInventory, q \in EditQuantities : SaveEdit(item.id, q)
  \/ \E item \in pageInventory, mode \in PromptInputs :
       \E conf \in ConfirmInputs(mode) : HandleRemove(item, mode, conf)
  \/ \E form \in RestockForms : HandleRestock(form)

SpecHandlers == Init /\ [][NextHandlers]_vars

(***************************************************************************)
(* The metrics views.  An SQL aggregate is NULL over no rows; COUNT comes  *)
(* back as a number and SUM as a decimal, which the store client hands     *)
(* over as text.                                                           *)
(***************************************************************************)
Decimal(n) == [kind |-> "decimal", val |-> n]
SqlNull == [kind |-> "null", val |-> 0]

\* SUM(...) over the values of a set of terms, each [key, null, val]
RECURSIVE SumTerms(_)
SumTerms(T) ==
  IF T = {} THEN 0
  ELSE LET t == CHOOSE x \in T : TRUE IN t.val + SumTerms(T \ {t})

SqlSum(T) ==
  IF {t \in T : ~t.null} = {} THEN SqlNull
  ELSE Decimal(SumTerms({t \in T : ~t.null}))

\* COALESCE(x, 0)
Coalesce0Missing(x) == x
Coalesce0(x) == IF x.kind = "null" THEN Decimal(0) ELSE x

\* Number(x) || 0
NumberOrZero(x) == IF x.kind = "null" THEN Num(0) ELSE Num(x.val)

\* a ?? b
Nullish(a, b) == IF a.kind = "null" THEN b ELSE a

\* SELECT COALESCE(SUM(qty),0) FROM inventory
TotalStockQuantityRows(inv) == Decimal(Cardinality(inv))
TotalStockQuantity(inv) ==
  Coalesce0(SqlSum({[key |-> r.inv_id, null |-> FALSE, val |-> r.qty] : r \in inv}))

\* SELECT COALESCE(SUM(i.qty * p.price),0) FROM inventory i JOIN products p ...
TotalStockValue(inv, prods) ==
  Coalesce0(SqlSum(
    { [key |-> x[1].inv_id, null |-> "price" \in x[2].nulls,
       val |-> x[1].qty * x[2].price] :
        x \in {y \in inv \X prods : y[1].product_id = y[2].product_id} }))

\* GET /api/metrics: the fields shared with the compatibility view
MetricsView(prods, machs, inv) ==
  [ total_products |-> Num(Cardinality(prods)),
    total_machines |-> Num(Cardinality(machs)),
    total_stock_quantity |-> TotalStockQuantity(inv),
    total_stock_value |-> NumberOrZero(TotalStockValue(inv, prods)) ]

\* GET /api/dashboard-metrics
DashboardMetricsViewRaw(prods, machs, inv) ==
  [ totalProducts |-> Num(Cardinality(prods)),
    activeMachines |-> Num(Cardinality(machs)),
    itemsInStock |-> TotalStockQuantity(inv),
    stockValue |-> TotalStockValue(inv, prods) ]
DashboardMetricsView(prods, machs, inv) ==
  [ totalProducts |-> Num(Cardinality(prods)),
    activeMachines |-> Num(Cardinality(machs)),
    itemsInStock |-> TotalStockQuantity(inv),
    stockValue |-> NumberOrZero(TotalStockValue(inv, prods)) ]

\* Dashboard.tsx loadAll: the metrics built from the compatibility view
FallbackMetrics(fb) ==
  [ total_products |-> Nullish(Field(fb, "totalProducts"),
                               Nullish(Field(fb, "total_products"), Num(0))),
    total_machines |-> Nullish(Field(fb, "activeMachines"),
                               Nullish(Field(fb, "total_machines"), Num(0))),
    total_stock_quantity |-> Nullish(Field(fb, "itemsInStock"),
                               Nullish(Field(fb, "total_stock_quantity"), Num(0))),
    total_stock_value |-> NumberOrZero(Nullish(Field(fb, "stockValue"),
                               Nullish(Field(fb, "total_stock_value"), Num(0)))) ]

\* a body that leaves the price out
NoPriceBody == ProductBody(Str("Gum"), Null, Str("box"))
FreeBody == ProductBody(Str("Gum"), Num(0), Null)

\* the tables change under the views
NextMetrics ==
  \/ \E m \in MachineIds, d \in 1..MaxDelta : PostInventory(m, m, Num(d))
  \/ \E invId \in 1..MaxInvId : PutInventory(invId, Num(0))
  \/ \E invId \in 1..MaxInvId : DeleteInventory(invId)
  \/ \E body \in {ValidBody, FreeBody} : PostProduct(body)
  \/ PutProduct(1, NoPriceBody, FALSE)
  \/ \E id \in 1..MaxProductId : DeleteProduct(id)

SpecMetrics == Init /\ [][NextMetrics]_vars

(***************************************************************************)
(* The aggregate routes on tables at rest.  The tables are drawn from      *)
(* bounded sets; nothing writes them while the routes are served.          *)
(***************************************************************************)
coreVars == <<variant, products, machines, saleItems, nextProductId, inventory,
              nextInvId, now, lastResp, pageVars, concVars, histVars>>
raceVars == <<putReqs, putHist>>
aggFrame == <<coreVars, sales, raceVars, otherPage, metricsReq, loads, dash>>

\* SELECT COALESCE(SUM(total_amount),0) AS total_revenue FROM sales
TotalRevenue(sls) ==
  Coalesce0(SqlSum({[key |-> x.sale_id, null |-> FALSE, val |-> x.total_amount] :
                      x \in sls}))

\* ORDER BY total DESC over entries [id, total, row]; rows with equal totals
\* come in the order the store finds them: by id, upwards or downwards
Before(a, b, tie) ==
  \/ a.total > b.total
  \/ a.total = b.total /\ (IF tie = "asc" THEN a.id < b.id ELSE a.id > b.id)

RECURSIVE OrderByTotalDesc(_, _)
OrderByTotalDesc(E, tie) ==
  IF E = {} THEN <<>>
  ELSE LET top == CHOOSE e \in E : \A o \in E \ {e} : Before(e, o, tie)
       IN <<top.row>> \o OrderByTotalDesc(E \ {top}, tie)

Ties == {"asc", "desc"}

\* COALESCE(NULLIF(m.location, ''), NULLIF(m.description, ''),
\*          CONCAT('Machine ', m.machine_id))
MachineName(m) ==
  IF m.location # "" THEN m.location
  ELSE IF m.description # "" THEN m.description
  ELSE "Machine " \o <<"1", "2", "3">>[m.machine_id]

\* FROM machines m INNER JOIN inventory ...: machines without rows are lost
DistributionGroupsInner(machs, inv, prods) ==
  { [machine |-> m,
     rows |-> {x \in inv \X prods : x[1].machine_id = m.machine_id
                                      /\ x[1].product_id = x[2].product_id}] :
      m \in {mm \in machs : \E r \in inv : r.machine_id = mm.machine_id} }
\* FROM machines m LEFT JOIN inventory i ... LEFT JOIN products p ...
\* GROUP BY m.machine_id, machine_name
DistributionGroups(machs, inv, prods) ==
  { [machine |-> m,
     rows |-> {x \in inv \X prods : x[1].machine_id = m.machine_id
                                      /\ x[1].product_id = x[2].product_id}] :
      m \in machs }

\* GET /api/machine-distribution
MachineDistribution(machs, inv, prods, tie) ==
  OrderByTotalDesc(
    { LET qty == Coalesce0(SqlSum({[key |-> x[1].inv_id, null |-> FALSE,
                                    val |-> x[1].qty] : x \in g.rows}))
          value == Coalesce0(SqlSum({[key |-> x[1].inv_id,
                                      null |-> "price" \in x[2].nulls,
                                      val |-> x[1].qty * x[2].price] : x \in g.rows}))
      IN [id |-> g.machine.machine_id, total |-> qty.val,
          row |-> [machine_id |-> g.machine.machine_id,
                   machine_name |-> MachineName(g.machine),
                   total_qty |-> NumberOrZero(qty).val,
                   total_value |-> NumberOrZero(value).val]] :
        g \in DistributionGroups(machs, inv, prods) },
    tie)

\* LIMIT 10 in the full build, LIMIT 5 in the older one
RichLimit == 10
CompatLimit == 5
TopLimit(v) == IF v = "rich" THEN RichLimit ELSE CompatLimit

Min(a, b) == IF a < b THEN a ELSE b

\* FROM sale_items si JOIN products p ... GROUP BY si.product_id, p.name
SoldGroups(items, prods) ==
  { [product |-> p, rows |-> {x \in items : x.product_id = p.product_id}] :
      p \in {pp \in prods : \E x \in items : x.product_id = pp.product_id} }

TopEntries(items, prods) ==
  { LET total == Coalesce0(SqlSum({[key |-> x.sale_item_id, null |-> FALSE,
                                    val |-> x.qty] : x \in g.rows}))
    IN [id |-> g.product.product_id, total |-> total.val,
        row |-> [product_name |-> g.product.name,
                 total_sales |-> NumberOrZero(total).val]] :
      g \in SoldGroups(items, prods) }

\* the limit cuts the groups before they are ordered
TopSellingProductsLimitFirst(items, prods, limit, tie) ==
  OrderByTotalDesc({e \in TopEntries(items, prods) :
                      Cardinality({o \in TopEntries(items, prods) : o.id < e.id})
                        < limit}, tie)
\* ... ORDER BY total_sales DESC LIMIT n, then the map of the response
TopSellingProducts(items, prods, limit, tie) ==
  LET ranked == OrderByTotalDesc(TopEntries(items, prods), tie)
  IN SubSeq(ranked, 1, Min(limit, Len(ranked)))

\* GET /api/metrics: the body of the response
MetricsResponse(prods, machs, inv, sls, items, limit, tie) ==
  [ route |-> "metrics",
    total_products |-> Num(Cardinality(prods)),
    total_machines |-> Num(Cardinality(machs)),
    total_stock_quantity |-> TotalStockQuantity(inv),
    total_stock_value |-> NumberOrZero(TotalStockValue(inv, prods)),
    total_revenue |-> NumberOrZero(TotalRevenue(sls)),
    total_sales_count |-> Num(Cardinality(sls)),
    top_selling_products |-> TopSellingProducts(items, prods, limit, tie) ]

GetMetrics(tie) ==
  /\ aggResp' = MetricsResponse(products, machines, inventory, sales, saleItems,
                                TopLimit(variant), tie)
  /\ UNCHANGED aggFrame

GetMachineDistribution(tie) ==
  /\ aggResp' = [route |-> "machine-distribution",
                 rows |-> MachineDistribution(machines, inventory, products, tie)]
  /\ UNCHANGED aggFrame

\* rows the ledger and the sales table can hold
SampleRows ==
  { [inv_id |-> 1, machine_id |-> 1, product_id |-> 1, qty |-> 2, last_restock |-> 1],
    [inv_id |-> 2, machine_id |-> 1, product_id |-> 2, qty |-> 1, last_restock |-> 1],
    [inv_id |-> 3, machine_id |-> 2, product_id |-> 2, qty |-> 0, last_restock |-> 1],
    [inv_id |-> 4, machine_id |-> 3, product_id |-> 1, qty |-> 2, last_restock |-> 1] }

SampleSales ==
  { [sale_id |-> 1, total_amount |-> 3, day |-> 1],
    [sale_id |-> 2, total_amount |-> 4, day |-> 1],
    [sale_id |-> 3, total_amount |-> 2, day |-> 8] }

SampleMachines ==
  InitMachines \cup {[machine_id |-> 3, location |-> "", description |-> ""]}

InitTotals ==
  /\ variant = "rich"
  /\ machines \in {{}, InitMachines, SampleMachines}
  /\ products \in {{}, InitProducts}
  /\ saleItems \in {{}, InitSaleItems}
  /\ saleItems # {} => products # {}
  /\ nextProductId = 3
  /\ sales \in SUBSET SampleSales
  /\ inventory \in SUBSET SampleRows
  /\ \A r \in inventory : ForeignKeyOk(r.machine_id, r.product_id)
  /\ nextInvId = Cardinality(SampleRows) + 1
  /\ InitIdle

NextTotals ==
  \/ \E tie \in Ties : GetMetrics(tie)
  \/ \E tie \in Ties : GetMachineDistribution(tie)

SpecTotals == InitTotals /\ [][NextTotals]_vars

(***************************************************************************)
(* Set-quantity requests of several clients.  The handler runs two         *)
(* statements, UPDATE and SELECT, and awaits each: statements of other     *)
(* requests run in between.                                                *)
(***************************************************************************)
\* SELECT i.inv_id, ..., p.name AS product_name, p.price, i.qty
\* FROM inventory i JOIN products p ... WHERE inv_id = ?
SelectRow(inv, prods, invId) ==
  { [inv_id |-> x[1].inv_id, machine_id |-> x[1].machine_id,
     product_id |-> x[1].product_id, product_name |-> x[2].name,
     price |-> x[2].price, qty |-> x[1].qty] :
      x \in {y \in inv \X prods : y[1].inv_id = invId
                                    /\ y[1].product_id = y[2].product_id} }

raceFrame == <<coreVars, sales, aggResp, otherPage, metricsReq, loads, dash>>
ledgerFrame == <<variant, products, machines, saleItems, nextProductId,
                 nextInvId, now, lastResp, pageVars, concVars, histVars>>

\* validation and the UPDATE statement
PutUpdateStep(c, invId, qty) ==
  /\ putReqs[c].pc = "idle"
  /\ IF PutRejected(qty)
     THEN /\ putReqs' = [putReqs EXCEPT ![c] =
                           [pc |-> "done", inv_id |-> invId, qty |-> 0,
                            status |-> 400, rows |-> {}]]
          /\ UNCHANGED <<inventory, putHist>>
     ELSE /\ inventory' = UpdateQty(inventory, invId, qty.val)
          /\ putReqs' = [putReqs EXCEPT ![c] =
                           [pc |-> "updated", inv_id |-> invId, qty |-> qty.val,
                            status |-> 0, rows |-> {}]]
          /\ putHist' = IF RowsById(invId) = {} THEN putHist
                        ELSE [stored |-> putHist.stored \cup {<<invId, qty.val>>},
                              last |-> {w \in putHist.last : w[1] # invId}
                                         \cup {<<invId, qty.val>>}]
  /\ UNCHANGED <<ledgerFrame, sales, aggResp, otherPage, metricsReq, loads, dash>>

\* the SELECT statement and res.json(row[0])
PutSelectStep(c) ==
  /\ putReqs[c].pc = "updated"
  /\ putReqs' = [putReqs EXCEPT ![c].pc = "done", ![c].status = 200,
                                ![c].rows = SelectRow(inventory, products,
                                                      putReqs[c].inv_id)]
  /\ UNCHANGED <<raceFrame, putHist>>

RaceQtyInputs == {Null} \cup {Num(q) : q \in 0..MaxQty}
RaceInvIds == {1, MaxInvId}

InitSetRace ==
  /\ variant = "rich"
  /\ products = InitProducts
  /\ machines = InitMachines
  /\ saleItems = InitSaleItems
  /\ sales = InitSales
  /\ nextProductId = 3
  /\ \E q \in 0..MaxQty :
       inventory = {[inv_id |-> 1, machine_id |-> 1, product_id |-> 1,
                     qty |-> q, last_restock |-> 1]}
  /\ nextInvId = MaxInvId + 1
  /\ InitIdle

NextSetRace ==
  \/ \E c \in Clients, invId \in RaceInvIds, qty \in RaceQtyInputs :
       PutUpdateStep(c, invId, qty)
  \/ \E c \in Clients : PutSelectStep(c)

SpecSetRace == InitSetRace /\ [][NextSetRace]_vars

(***************************************************************************)
(* Two Inventory pages open on the same ledger.  The second page runs the  *)
(* code of the first on a state of its own.                                *)
(***************************************************************************)
otherFrame == <<variant, products, machines, saleItems, nextProductId, now,
                pageVars, concVars, sales, aggResp, raceVars, metricsReq, loads,
                dash>>

\* loadMachines of the second page
OtherLoadMachines ==
  /\ otherPage.selectedMachine = 0
  /\ MachineIds # {}
  /\ otherPage' =
       [otherPage EXCEPT
          !.selectedMachine = CHOOSE m \in MachineIds : \A o \in MachineIds : m <= o,
          !.inventory = LoadedInventory(inventory,
                          CHOOSE m \in MachineIds : \A o \in MachineIds : m <= o)]
  /\ UNCHANGED <<otherFrame, inventory, nextInvId, lastResp, histVars>>

\* handleRemove(item) of the second page
OtherHandleRemove(item, mode, conf) ==
  /\ otherPage.selectedMachine # 0
  /\ item \in otherPage.inventory
  /\ ~mode.cancelled
  /\ ToLowerCase(Trim(mode.text)) # <<>>
  /\ IF ToLowerCase(Trim(mode.text)) = <<"a", "l", "l">>
     THEN /\ conf
          /\ DeleteInventoryTxn(item.id)
          /\ otherPage' =
               IF Ok(DeleteStatus(item.id))
               THEN [otherPage EXCEPT
                       !.inventory = LoadedInventory(inventory', otherPage.selectedMachine),
                       !.toast = [title |-> "Success", removeQty |-> 0, newQty |-> 0]]
               ELSE [otherPage EXCEPT
                       !.toast = [title |-> "Error", removeQty |-> 0, newQty |-> 0]]
     ELSE IF IsRemoveUnits(mode)
          THEN /\ PutInventoryTxn(item.id, Num(NewQty(item, RemoveQty(mode))))
               /\ otherPage' =
                    [otherPage EXCEPT
                       !.inventory = LoadedInventory(inventory', otherPage.selectedMachine),
                       !.toast = [title |-> "Success", removeQty |-> RemoveQty(mode),
                                  newQty |-> NewQty(item, RemoveQty(mode))]]
          ELSE /\ otherPage' =
                    [otherPage EXCEPT
                       !.toast = [title |-> "Validation", removeQty |-> 0, newQty |-> 0]]
               /\ UNCHANGED <<inventory, nextInvId, lastResp, histVars>>
  /\ UNCHANGED otherFrame

InitTwoPages ==
  /\ variant = "rich"
  /\ products = InitProducts
  /\ machines = InitMachines
  /\ saleItems = InitSaleItems
  /\ sales = InitSales
  /\ nextProductId = 3
  /\ \E q \in 1..MaxQty :
       inventory = {[inv_id |-> 1, machine_id |-> 1, product_id |-> 1,
                     qty |-> q, last_restock |-> 1]}
  /\ nextInvId = 2
  /\ InitIdle

NextTwoPages ==
  \/ LoadMachines
  \/ OtherLoadMachines
  \/ \E item \in pageInventory, mode \in PromptInputs :
       \E conf \in ConfirmInputs(mode) : HandleRemove(item, mode, conf)
  \/ \E item \in otherPage.inventory, mode \in PromptInputs :
       \E conf \in ConfirmInputs(mode) : OtherHandleRemove(item, mode, conf)
  \/ PostInventory(1, 1, Num(1))

SpecTwoPages == InitTwoPages /\ [][NextTwoPages]_vars

(***************************************************************************)
(* A metrics request query by query.  The handler awaits seven queries in  *)
(* turn, outside a transaction; writes of other requests commit between    *)
(* them.                                                                   *)
(***************************************************************************)
QueriesOfMetrics == 7

\* the result of the query the request runs after pc queries
QueryResult(pc, tie) ==
  CASE pc = 0 -> Num(Cardinality(products))
    [] pc = 1 -> Num(Cardinality(machines))
    [] pc = 2 -> TotalStockQuantity(inventory)
    [] pc = 3 -> TotalStockValue(inventory, products)
    [] pc = 4 -> TotalRevenue(sales)
    [] pc = 5 -> Num(Cardinality(sales))
    [] OTHER -> TopSellingProducts(saleItems, products, TopLimit(variant), tie)

\* res.json({...}) over the results of the seven queries
MetricsBody(vals) ==
  [ route |-> "metrics",
    total_products |-> vals[1],
    total_machines |-> vals[2],
    total_stock_quantity |-> vals[3],
    total_stock_value |-> NumberOrZero(vals[4]),
    total_revenue |-> NumberOrZero(vals[5]),
    total_sales_count |-> vals[6],
    top_selling_products |-> vals[7] ]

metricsFrame == <<coreVars, sales, raceVars, otherPage, loads, dash>>

\* one awaited query; the last one is followed by the response
MetricsQueryStep(tie) ==
  /\ metricsReq.pc < QueriesOfMetrics
  /\ metricsReq' =
       [pc |-> metricsReq.pc + 1,
        vals |-> Append(metricsReq.vals, QueryResult(metricsReq.pc, tie)),
        seen |-> IF metricsReq.pc = 0 THEN {inventory} ELSE metricsReq.seen,
        mutated |-> metricsReq.mutated]
  /\ aggResp' = IF metricsReq'.pc = QueriesOfMetrics
                THEN MetricsBody(metricsReq'.vals) ELSE aggResp
  /\ UNCHANGED metricsFrame

InFlightMetrics == metricsReq.pc > 0 /\ metricsReq.pc < QueriesOfMetrics

\* a set-quantity request of another client, served whole
SetDuringMetrics(invId, qty) ==
  /\ PutInventoryTxn(invId, qty)
  /\ metricsReq' = IF InFlightMetrics /\ Ok(PutStatus(qty))
                   THEN [metricsReq EXCEPT !.seen = @ \cup {inventory'},
                                           !.mutated = TRUE]
                   ELSE metricsReq
  /\ UNCHANGED <<variant, products, machines, saleItems, nextProductId, now,
                 pageVars, concVars, sales, aggResp, raceVars, otherPage, loads,
                 dash>>

InitAggregate ==
  /\ variant = "rich"
  /\ products = InitProducts
  /\ machines = InitMachines
  /\ saleItems = InitSaleItems
  /\ sales = InitSales
  /\ nextProductId = 3
  /\ \E q \in 0..MaxQty :
       inventory = {[inv_id |-> 1, machine_id |-> 1, product_id |-> 1,
                     qty |-> q, last_restock |-> 1]}
  /\ nextInvId = 2
  /\ InitIdle

NextAggregate ==
  \/ \E tie \in Ties : MetricsQueryStep(tie)
  \/ \E q \in 0..MaxQty : SetDuringMetrics(1, Num(q))

SpecAggregate == InitAggregate /\ [][NextAggregate]_vars

(***************************************************************************)
(* The Inventory page with its loads in flight.  Selecting a machine       *)
(* starts loadInventory, which awaits the response and then sets the list; *)
(* responses arrive in any order.                                          *)
(***************************************************************************)
MaxLoads == 2

loadFrame == <<variant, products, machines, saleItems, nextProductId, inventory,
               nextInvId, now, lastResp, concVars, histVars, sales, aggResp,
               raceVars, otherPage, metricsReq, dash>>

SentLoad(m) == [machine |-> m, served |-> FALSE, list |-> {}]

\* loadMachines: the first machine is selected; the effect on selectedMachine
\* calls loadInventory
StartLoadMachines ==
  /\ selectedMachine = 0
  /\ MachineIds # {}
  /\ selectedMachine' = CHOOSE m \in MachineIds : \A o \in MachineIds : m <= o
  /\ loads' = [loads EXCEPT !.inflight = @ \cup {SentLoad(selectedMachine')}]
  /\ UNCHANGED <<loadFrame, pageInventory, toast>>

\* onValueChange of the machine select; the effect calls loadInventory
ChangeMachine(m) ==
  /\ selectedMachine # 0
  /\ m \in MachineIds
  /\ m # selectedMachine
  /\ Cardinality(loads.inflight) < MaxLoads
  /\ SentLoad(m) \notin loads.inflight
  /\ selectedMachine' = m
  /\ loads' = [loads EXCEPT !.inflight = @ \cup {SentLoad(m)}]
  /\ UNCHANGED <<loadFrame, pageInventory, toast>>

\* GET /api/inventory/:machineId served
ServeLoadInventory(l) ==
  /\ l \in loads.inflight
  /\ ~l.served
  /\ loads' = [loads EXCEPT !.inflight =
                 (@ \ {l}) \cup {[machine |-> l.machine, served |-> TRUE,
                                  list |-> LoadedInventory(inventory, l.machine)]}]
  /\ UNCHANGED <<loadFrame, pageVars>>

\* loadInventory resumes with the response: setInventory(list)
FinishLoadInventory(l) ==
  /\ l \in loads.inflight
  /\ l.served
  /\ pageInventory' = l.list
  /\ loads' = [loads EXCEPT !.inflight = @ \ {l}, !.shownFor = l.machine]
  /\ UNCHANGED <<loadFrame, selectedMachine, toast>>

\* loadInventory resumes with a failure: the toast, the list stays
FailLoadInventory(l) ==
  /\ l \in loads.inflight
  /\ ~l.served
  /\ toast' = [title |-> "Error", removeQty |-> 0, newQty |-> 0]
  /\ loads' = [loads EXCEPT !.inflight = @ \ {l}, !.failed = TRUE]
  /\ UNCHANGED <<loadFrame, selectedMachine, pageInventory>>

\* a set-quantity request of another client
SetDuringLoads(invId, qty) ==
  /\ PutInventoryTxn(invId, qty)
  /\ UNCHANGED <<variant, products, machines, saleItems, nextProductId, now,
                 pageVars, concVars, sales, aggResp, raceVars, otherPage,
                 metricsReq, loads, dash>>

InitLoads ==
  /\ variant = "rich"
  /\ products = InitProducts
  /\ machines = InitMachines
  /\ saleItems = InitSaleItems
  /\ sales = InitSales
  /\ nextProductId = 3
  /\ inventory = {[inv_id |-> 1, machine_id |-> 1, product_id |-> 1,
                   qty |-> 2, last_restock |-> 1],
                  [inv_id |-> 2, machine_id |-> 2, product_id |-> 2,
                   qty |-> 1, last_restock |-> 1]}
  /\ nextInvId = 3
  /\ InitIdle

NextLoads ==
  \/ StartLoadMachines
  \/ \E m \in MachineIds : ChangeMachine(m)
  \/ \E l \in loads.inflight : ServeLoadInventory(l)
  \/ \E l \in loads.inflight : FinishLoadInventory(l)
  \/ \E l \in loads.inflight : FailLoadInventory(l)
  \/ \E q \in 0..MaxQty : SetDuringLoads(1, Num(q))

SpecLoads == InitLoads /\ [][NextLoads]_vars

(***************************************************************************)
(* Set-quantity and delete-row requests on rows that may be gone.          *)
(***************************************************************************)
MissingQtyInputs == {Null, Num(1)}

NextMissing ==
  \/ \E c \in Clients, invId \in RaceInvIds, qty \in MissingQtyInputs :
       PutUpdateStep(c, invId, qty)
  \/ \E c \in Clients : PutSelectStep(c)
  \/ \E invId \in RaceInvIds : DeleteInventory(invId)

SpecMissing == InitSetRace /\ [][NextMissing]_vars

(***************************************************************************)
(* The Dashboard page.  loadAll awaits its requests one after the other;   *)
(* each is answered or fails.  The older server build has neither          *)
(* /dashboard-metrics nor /machine-distribution.                           *)
(***************************************************************************)
TrendDays == 7

\* GET /api/revenue-trend: the revenue of each of the last days, oldest first
RevenueTrend(sls) ==
  LET recent == {x \in sls : x.day <= TrendDays}
      entries == { [id |-> 0 - d, total |-> d,
                    row |-> [date |-> 0 - d,
                             revenue |-> Coalesce0(SqlSum(
                               {[key |-> x.sale_id, null |-> FALSE,
                                 val |-> x.total_amount] :
                                  x \in {y \in recent : y.day = d}}))]] :
                     d \in {x.day : x \in recent} }
  IN OrderByTotalDesc(entries, "asc")

\* rt.map((r) => ({ date: String(r.date), revenue: Number(r.revenue || 0) }))
PageRevenueTrend(rt) ==
  [i \in 1..Len(rt) |-> [date |-> rt[i].date, revenue |-> NumberOrZero(rt[i].revenue).val]]

\* (md || []).map(...) of loadAll
PageMachineDist(md) ==
  [i \in 1..Len(md) |->
     [machine_id |-> md[i].machine_id,
      machine_name |-> IF md[i].machine_name # "" THEN md[i].machine_name ELSE "M",
      total_qty |-> md[i].total_qty, total_value |-> md[i].total_value]]

\* req(path): the outcomes of a request to the running server
Outcomes(path) ==
  IF variant = "compat" /\ path \in {"/dashboard-metrics", "/machine-distribution"}
  THEN {FALSE} ELSE BOOLEAN

Request(d, path) == [d EXCEPT !.pc = path, !.requested = @ \cup {path}]
Failed(d, path) == [d EXCEPT !.failed = @ \cup {path}]

\* catch (err) { toast(...) } without the finally
AfterMetricsFailureNoFinally(d) == [d EXCEPT !.toast = "Error", !.pc = "done"]
\* catch (err) { toast(...) } finally { setLoading(false) }
AfterMetricsFailure(d) ==
  [d EXCEPT !.toast = "Error", !.loading = FALSE, !.pc = "done"]

\* finally { setLoading(false) } at the end of the try block
AfterLastRequest(d) == [d EXCEPT !.loading = FALSE, !.pc = "done"]

dashFrame == <<coreVars, sales, aggResp, raceVars, otherPage, metricsReq, loads>>

\* the effect of the mount: loadAll starts and requests /metrics
LoadAllStart ==
  /\ dash.pc = "mount"
  /\ dash' = Request([dash EXCEPT !.loading = TRUE], "/metrics")
  /\ UNCHANGED dashFrame

\* await req("/metrics")
MetricsSettles(ok) ==
  /\ dash.pc = "/metrics"
  /\ dash' = IF ok
             THEN Request([dash EXCEPT !.metrics =
                             MetricsView(products, machines, inventory)],
                          "/revenue-trend")
             ELSE Request(Failed(dash, "/metrics"), "/dashboard-metrics")
  /\ UNCHANGED dashFrame

\* await req("/dashboard-metrics")
FallbackSettles(ok) ==
  /\ dash.pc = "/dashboard-metrics"
  /\ dash' = IF ok
             THEN Request([dash EXCEPT !.metrics =
                             FallbackMetrics(DashboardMetricsView(products, machines,
                                                                  inventory))],
                          "/revenue-trend")
             ELSE AfterMetricsFailure(Failed(dash, "/dashboard-metrics"))
  /\ UNCHANGED dashFrame

\* await req("/revenue-trend")
TrendSettles(ok) ==
  /\ dash.pc = "/revenue-trend"
  /\ dash' = IF ok
             THEN Request([dash EXCEPT !.revenueTrend =
                             PageRevenueTrend(RevenueTrend(sales))],
                          "/machine-distribution")
             ELSE Request([Failed(dash, "/revenue-trend") EXCEPT !.revenueTrend = <<>>],
                          "/machine-distribution")
  /\ UNCHANGED dashFrame

\* await req("/machine-distribution")
DistSettles(ok, tie) ==
  /\ dash.pc = "/machine-distribution"
  /\ dash' = IF ok
             THEN AfterLastRequest([dash EXCEPT !.machineDist =
                    PageMachineDist(MachineDistribution(machines, inventory,
                                                        products, tie))])
             ELSE AfterLastRequest([Failed(dash, "/machine-distribution")
                                      EXCEPT !.machineDist = <<>>])
  /\ UNCHANGED dashFrame

InitDash ==
  /\ variant \in {"rich", "compat"}
  /\ machines = InitMachines
  /\ products = InitProducts
  /\ saleItems = InitSaleItems
  /\ nextProductId = 3
  /\ sales \in SUBSET SampleSales
  /\ inventory \in SUBSET SampleRows
  /\ \A r \in inventory : ForeignKeyOk(r.machine_id, r.product_id)
  /\ nextInvId = Cardinality(SampleRows) + 1
  /\ InitIdle

NextDash ==
  \/ LoadAllStart
  \/ \E ok \in Outcomes("/metrics") : MetricsSettles(ok)
  \/ \E ok \in Outcomes("/dashboard-metrics") : FallbackSettles(ok)
  \/ \E ok \in Outcomes("/revenue-trend") : TrendSettles(ok)
  \/ \E ok \in Outcomes("/machine-distribution"), tie \in Ties : DistSettles(ok, tie)

SpecDash == InitDash /\ [][NextDash]_vars

\* every request loadAll awaits is answered or fails
SpecDashLive == SpecDash /\ WF_vars(NextDash)

(***************************************************************************)
(* The ranking of sold products, over a catalog large enough for the       *)
(* limit of either build to cut the ranking.                               *)
(***************************************************************************)
MaxSold == 11

ProductNames ==
  <<"Chips", "Cola", "Water", "Juice", "Gum", "Mints", "Nuts", "Bar", "Tea",
    "Cocoa", "Candy", "Wafer", "Soda", "Cake">>

SoldCatalog ==
  { [product_id |-> i, name |-> ProductNames[i], price |-> 2, unit |-> "pcs",
     nulls |-> {}] : i \in 1..MaxSold }

\* one sale line per product, and a second line for product 1
SampleSaleItems ==
  { [sale_item_id |-> i, product_id |-> i, qty |-> ((2 * i) % 3) + 1] :
      i \in 1..MaxSold }
    \cup { [sale_item_id |-> MaxSold + 1, product_id |-> 1, qty |-> 2] }

InitTopSellers ==
  /\ variant \in {"rich", "compat"}
  /\ machines = InitMachines
  /\ products = SoldCatalog
  /\ nextProductId = MaxSold + 1
  /\ saleItems \in SUBSET SampleSaleItems
  /\ sales = InitSales
  /\ inventory = {}
  /\ nextInvId = 1
  /\ InitIdle

NextTopSellers == \E tie \in Ties : GetMetrics(tie)

SpecTopSellers == InitTopSellers /\ [][NextTopSellers]_vars

(***************************************************************************)
(* Properties of the ledger under arbitrary requests (Spec).               *)
(***************************************************************************)

\* C1: in every reachable state the ledger holds at most one record for each
\* (machine_id, product_id) pair, whatever requests were served.
UniqueRecordPerPair ==
  \A r1 \in inventory, r2 \in inventory :
    (r1.machine_id = r2.machine_id /\ r1.product_id = r2.product_id) => r1 = r2

\* C1 witness: two pairs have a record, and one of them holds more than any
\* single request can carry, so restocks of it were accumulated in one row.
AccumulatedRestocks ==
  /\ Cardinality(inventory) = 2
  /\ \E r \in inventory : r.qty > MaxDelta

\* C4 (as claimed): every stored quantity is >= 0.
NonNegativeQuantity == \A r \in inventory : r.qty >= 0

\* C5 (as claimed): a PUT /api/inventory/:invId whose qty is negative is
\* answered 400 and leaves the ledger as it was.
NegativeSetRejected ==
  [][ \A invId \in InvIdInputs, qty \in QtyInputs :
        (lastResp'.op = "PUT" /\ qty.kind = "num" /\ qty.val < 0
           /\ RowsById(invId) # {} /\ PutInventory(invId, qty))
          => (lastResp'.status = 400 /\ inventory' = inventory) ]_vars

\* C6: a PUT with a valid quantity q on an existing record stores exactly q,
\* storing it again changes nothing, and the record's last_restock, machine_id,
\* product_id, every other record, the products and the machines are unchanged.
SetQuantityOverwritesOnly ==
  [][ \A invId \in InvIdInputs, qty \in QtyInputs :
        (lastResp' = Resp("PUT", 200) /\ qty.kind = "num" /\ qty.val >= 0
           /\ RowsById(invId) # {} /\ PutInventory(invId, qty))
          => /\ \A r \in inventory :
                  IF r.inv_id = invId
                  THEN [inv_id |-> r.inv_id, machine_id |-> r.machine_id,
                        product_id |-> r.product_id, qty |-> qty.val,
                        last_restock |-> r.last_restock] \in inventory'
                  ELSE r \in inventory'
             /\ Cardinality(inventory') = Cardinality(inventory)
             /\ UpdateQty(inventory', invId, qty.val) = inventory'
             /\ products' = products
             /\ machines' = machines ]_vars

\* C6 witness: a PUT was answered 200 while two records exist.
SetQuantityServed ==
  /\ lastResp = Resp("PUT", 200)
  /\ Cardinality(inventory) = 2
  /\ \E r \in inventory : r.qty = MaxDelta

\* C9: a row deleted through DELETE /api/inventory/:invId is in no list result
\* until its pair is restocked again, and the delete leaves every other
\* record, the products and the machines as they were.
DeletedRowNotListed ==
  \A d \in deleted, m \in MachineIds :
    \A row \in ListInventory(inventory, products, m) :
      row.inv_id # d.inv_id /\ <<row.machine_id, row.product_id>> # d.pair

DeleteRemovesOnlyTheRow ==
  [][ /\ DeletedRowNotListed'
      /\ \A invId \in InvIdInputs :
           (lastResp' = Resp("DELETE", 200) /\ DeleteInventory(invId))
             => /\ \A r \in inventory : r.inv_id # invId <=> r \in inventory'
                /\ inventory' \subseteq inventory
                /\ products' = products
                /\ machines' = machines ]_vars

\* C9 witness: a row was deleted and not restocked since, another remains.
RowDeletedOtherRemains ==
  /\ deleted # {}
  /\ inventory # {}
  /\ lastResp = Resp("DELETE", 200)

\* C10: a record leaves the ledger only in a step that is a delete-row request
\* for its inv_id, and a record whose quantity is 0 is still listed.
ZeroQuantityListed ==
  \A r \in inventory :
    r.qty = 0 =>
      \E row \in ListInventory(inventory, products, r.machine_id) :
        row.inv_id = r.inv_id /\ row.qty = 0

OnlyDeleteRemovesRecord ==
  [][ /\ \A r \in inventory :
           (\A r2 \in inventory' : r2.inv_id # r.inv_id)
             => (lastResp' = Resp("DELETE", 200) /\ DeleteInventory(r.inv_id))
      /\ ZeroQuantityListed' ]_vars

\* C10 witness: after a PUT the ledger holds a record with quantity 0, and
\* the pair next to it has no record.
ZeroRecordRetained ==
  /\ lastResp = Resp("PUT", 200)
  /\ \E r \in inventory : r.qty = 0
  /\ Cardinality(inventory) = 1

(***************************************************************************)
(* Properties of last_restock (SpecClock).                                 *)
(***************************************************************************)

\* C7: a successful restock leaves the pair's record with last_restock = NOW(),
\* a PUT leaves every last_restock as it was, and so each record's
\* last_restock is the time of the latest successful restock of its pair.
LastRestockIsLatestRestock ==
  \A r \in inventory : r.last_restock = lastRestockTime[UniqueKey(r)]

LastRestockOnlyByRestock ==
  [][ /\ \A m \in IdInputs, p \in IdInputs, qty \in PostQtyInputs :
           (lastResp' = Resp("POST", 201) /\ PostInventory(m, p, qty))
             => \E r \in inventory' :
                  UniqueKey(r) = <<m, p>> /\ r.last_restock = now
      /\ \A invId \in InvIdInputs, qty \in QtyInputs :
           (lastResp'.op = "PUT" /\ PutInventory(invId, qty))
             => \A r \in inventory, r2 \in inventory' :
                  r.inv_id = r2.inv_id => r2.last_restock = r.last_restock
      /\ LastRestockIsLatestRestock' ]_vars

\* C7 witness: the older record was restocked again at time 2, the newer one
\* was created at time 1 and has since been set by a PUT.
RestockedAgainLater ==
  /\ now = 2
  /\ lastResp = Resp("PUT", 200)
  /\ \E r1 \in inventory, r2 \in inventory :
       r1.inv_id < r2.inv_id /\ r1.last_restock = 2 /\ r2.last_restock = 1

(***************************************************************************)
(* Properties of restocks (SpecRestock).                                   *)
(***************************************************************************)
RowsOf(pr) == {r \in inventory : r.machine_id = pr[1] /\ r.product_id = pr[2]}

\* C2: a restock of d > 0 creates the pair's record with quantity d when there
\* is none and otherwise adds d to the record's quantity; so a pair restocked
\* d1..dn since it was fresh, and not otherwise written, has exactly one
\* record, holding d1 + ... + dn.
RestockSumOnFreshPair ==
  \A pr \in Pairs :
    (restocked[pr].clean /\ restocked[pr].sum > 0)
      => /\ Cardinality(RowsOf(pr)) = 1
         /\ \A r \in RowsOf(pr) : r.qty = restocked[pr].sum

RestockCreatesOrAdds ==
  [][ /\ \A rq \in RestockReqs :
           (lastResp' = Resp("POST", 201) /\ ServeRestock(rq))
             => IF RowsOf(PairOf(rq)) = {}
                THEN /\ Cardinality(inventory') = Cardinality(inventory) + 1
                     /\ \E r \in inventory' :
                          /\ r \notin inventory
                          /\ <<r.machine_id, r.product_id>> = PairOf(rq)
                          /\ r.qty = rq[3]
                ELSE /\ Cardinality(inventory') = Cardinality(inventory)
                     /\ \A r \in RowsOf(PairOf(rq)) :
                          \E r2 \in inventory' :
                            r2.inv_id = r.inv_id /\ r2.qty = r.qty + rq[3]
      /\ RestockSumOnFreshPair' ]_vars

\* C2 witness: a pair restocked only, to more than one request can carry.
SeveralRestocksSummed ==
  \E pr \in Pairs :
    /\ restocked[pr].clean
    /\ restocked[pr].sum > MaxDelta
    /\ \E r \in RowsOf(pr) : r.qty = restocked[pr].sum

\* C3: once no restock of a pair is in flight, the pair has at most one
\* record and its quantity is the quantity the batch started from plus every
\* delta issued, in whatever order the requests were served; a pair with
\* deltas issued has a record.
ConcurrentRestocksNotLost ==
  \A pr \in Pairs :
    PendingFor(pr) = {}
      => /\ Cardinality(RowsOf(pr)) <= 1
         /\ \A r \in RowsOf(pr) : r.qty = expected[pr]
         /\ expected[pr] > 0 => RowsOf(pr) # {}

\* C3 witness: restocks of one pair were in flight together, all have been
\* served, and the record holds more than one request can carry.
RacedRestocksServed ==
  \E pr \in Pairs :
    /\ restocked[pr].raced
    /\ PendingFor(pr) = {}
    /\ \E r \in RowsOf(pr) : r.qty > MaxDelta /\ r.qty = expected[pr]

(***************************************************************************)
(* Properties of the Inventory page's remove (SpecPage).                   *)
(***************************************************************************)

\* C8 (as claimed): a decrement by r stores max(0, q - r), q being the
\* quantity stored when the decrement is applied.
DecrementFromStoredQuantity ==
  [][ \A item \in pageInventory, mode \in PromptInputs :
        (lastResp' = Resp("PUT", 200) /\ IsRemoveUnits(mode)
           /\ HandleRemove(item, mode, TRUE))
          => \A r \in RowsById(item.id) :
               \E r2 \in inventory' :
                 r2.inv_id = r.inv_id /\ r2.qty = Max(0, r.qty - RemoveQty(mode)) ]_vars

\* C8 (amended): a decrement by r >= 0 of a record that still exists stores
\* max(0, q - r), q being the quantity the page last loaded for the record;
\* the result is >= 0, removing more than q gives 0, the record is retained.
DecrementFromLoadedQuantity ==
  [][ \A item \in pageInventory, mode \in PromptInputs :
        (lastResp' = Resp("PUT", 200) /\ IsRemoveUnits(mode)
           /\ HandleRemove(item, mode, TRUE))
          => /\ Cardinality(inventory') = Cardinality(inventory)
             /\ \A r \in RowsById(item.id) :
                  \E r2 \in inventory' :
                    /\ r2.inv_id = r.inv_id
                    /\ r2.qty = Max(0, item.quantity - RemoveQty(mode))
                    /\ r2.qty >= 0
                    /\ (RemoveQty(mode) > item.quantity => r2.qty = 0) ]_vars

\* C8 witness: 15 units were removed from a record holding fewer; the record
\* is still in the ledger, with quantity 0, and is shown by the page.
OverRemovalClamped ==
  /\ toast = [title |-> "Success", removeQty |-> 15, newQty |-> 0]
  /\ lastResp = Resp("PUT", 200)
  /\ \E item \in pageInventory :
       /\ item.quantity = 0
       /\ \E r \in inventory : r.inv_id = item.id /\ r.qty = 0

(***************************************************************************)
(* Properties of request validation and of error reporting (Spec).         *)
(***************************************************************************)

\* C11: a restock request whose machine_id, product_id or qty is missing or
\* not truthy (qty 0 included) is answered 400 and leaves the ledger as it was.
RestockRejectsFalsyFields ==
  [][ \A x \in PostInputs :
        (lastResp'.op = "POST" /\ (x[1] = 0 \/ x[2] = 0 \/ Falsy(x[3]))
           /\ PostInventory(x[1], x[2], x[3]))
          => (lastResp'.status = 400 /\ inventory' = inventory) ]_vars

\* C15: a restock the store rejects for a foreign key changes no state and is
\* answered with the store's rejection message, not with the generic failure.
ConstraintViolationSurfaced ==
  [][ \A x \in PostInputs :
        (lastResp'.op = "POST" /\ ~PostRejected(variant, x[1], x[2], x[3])
           /\ ~ForeignKeyOk(x[1], x[2]) /\ PostInventory(x[1], x[2], x[3]))
          => /\ inventory' = inventory
             /\ lastResp'.status # 500
             /\ lastResp'.error = ForeignKeyMessage ]_vars

(***************************************************************************)
(* Properties of the catalog and of validation (SpecCatalog).              *)
(***************************************************************************)
ValidationErrors ==
  { "Name and price are required", "qty required",
    "machine_id, product_id, qty required", "invId required" }

\* C12: a request answered with a 400 validation error leaves the products,
\* the machines and every ledger record exactly as they were.
ValidationShortCircuits ==
  [][ (lastResp'.status = 400 /\ lastResp'.error \in ValidationErrors)
        => /\ products' = products
           /\ machines' = machines
           /\ inventory' = inventory
           /\ nextProductId' = nextProductId
           /\ nextInvId' = nextInvId ]_vars

\* C12 witness: a product create was refused by validation while the catalog
\* had grown and the ledger held a record.
CreateRefusedInUse ==
  /\ lastResp = Reply("POST products", 400, "Name and price are required")
  /\ Cardinality(products) > Cardinality(InitProducts)
  /\ inventory # {}

ReferencesResolve ==
  \A r \in inventory : r.product_id \in ProductIds /\ r.machine_id \in MachineIds

\* C14: deleting a product referenced by a ledger record or a sale line item
\* is answered 400 with the store's message and removes nothing; every ledger
\* record references an existing product and an existing machine.
ReferencedProductKept ==
  [][ /\ \A id \in 1..MaxProductId :
           (lastResp'.op = "DELETE products" /\ ProductReferences(id) # {}
              /\ DeleteProduct(id))
             => /\ products' = products
                /\ inventory' = inventory
                /\ lastResp' = Reply("DELETE products", 400, RestrictMessage)
      /\ ReferencesResolve' ]_vars

\* C14 witness: the delete of a product held by a ledger record was refused.
StockedProductDeleteRefused ==
  /\ lastResp = Reply("DELETE products", 400, RestrictMessage)
  /\ \E r \in inventory : r.product_id = 1 /\ r.product_id \in ProductIds

\* C17: a create with a non-empty name and a price that is present (0
\* included) adds exactly one product, with unit "pcs" when none is given; a
\* create with name missing or empty, or price missing, is refused and adds
\* nothing.
CreateChecksPresence ==
  [][ \A body \in ProductBodies :
        (lastResp'.op = "POST products" /\ PostProduct(body))
          => IF Falsy(body.name) \/ IsNullish(body.price)
             THEN lastResp'.status = 400 /\ products' = products
             ELSE /\ lastResp'.status = 200
                  /\ Cardinality(products') = Cardinality(products) + 1
                  /\ \E pr \in products' \ products :
                       /\ pr.name = body.name.val
                       /\ pr.price = body.price.val
                       /\ pr.unit = IF IsNullish(body.unit) THEN "pcs"
                                    ELSE body.unit.val
                       /\ pr.nulls = {} ]_vars

\* C17 witness: a product priced 0, created without a unit, is in the catalog.
FreeProductCreated ==
  /\ lastResp = Resp("POST products", 200)
  /\ \E pr \in products : pr.name = "Gum" /\ pr.price = 0 /\ pr.unit = "pcs"

\* C18: an update with name missing or empty, or price missing, is answered
\* with a client error and leaves the product as stored; an update without a
\* unit stores the standard label.
UpdateChecksFields ==
  [][ \A id \in UpdateIds, body \in ProductBodies, notNull \in BOOLEAN :
        (lastResp'.op = "PUT products" /\ PutProduct(id, body, notNull))
          => IF Falsy(body.name) \/ IsNullish(body.price)
             THEN lastResp'.status = 400 /\ products' = products
             ELSE \A pr \in products' :
                    (pr.product_id = id /\ IsNullish(body.unit))
                      => (pr.unit = "pcs" /\ pr.nulls = {}) ]_vars

(***************************************************************************)
(* Properties of failure reporting (SpecFaults).                           *)
(***************************************************************************)

\* C13: whichever statement of a handler fails, a mutating request either
\* succeeds with its whole mutation applied (it is a step of the handler
\* served without failure) or is answered with a failure and changes nothing.
NoPartialSuccess ==
  [][ IF Ok(lastResp'.status)
      THEN NextServed
      ELSE /\ products' = products
           /\ machines' = machines
           /\ inventory' = inventory ]_vars

\* C16: a request during which the store fails for a reason that is neither
\* validation nor a constraint is answered 500 'Internal Server Error', and
\* the store's text is in no response.
StoreFailureIsGeneric ==
  [][ /\ NextFailed => (lastResp'.status = 500 /\ lastResp'.error = GenericError)
      /\ lastResp'.error # UnavailableMessage ]_vars

(***************************************************************************)
(* Properties of the wire contract (SpecWire).                             *)
(***************************************************************************)
QtyOfPair(inv, m, p) ==
  IF DuplicateRows(inv, m, p) = {} THEN 0
  ELSE (CHOOSE r \in DuplicateRows(inv, m, p) : TRUE).qty

\* C19: every set-quantity or restock call of the client with a valid
\* numeric quantity and valid ids is not answered 400 and has its effect on
\* the ledger: the record holds the quantity set, or grew by the restock.
ClientCallsReachLedger ==
  [][ /\ \A invId \in 1..MaxInvId, q \in 0..MaxDelta :
           (lastResp'.op = "PUT" /\ RowsById(invId) # {}
              /\ UpdateInventoryApi(invId, q))
             => /\ lastResp'.status # 400
                /\ \E r \in inventory' : r.inv_id = invId /\ r.qty = q
      /\ \A q \in 1..MaxDelta :
           (lastResp'.op = "POST" /\ RestockInventoryApi(1, 1, q))
             => /\ lastResp'.status # 400
                /\ QtyOfPair(inventory', 1, 1) = QtyOfPair(inventory, 1, 1) + q
      /\ \A item \in pageInventory, q \in 0..MaxDelta :
           (lastResp'.op = "PUT" /\ RowsById(item.id) # {}
              /\ SaveEdit(item.id, Num(q)))
             => /\ lastResp'.status # 400
                /\ \E r \in inventory' : r.inv_id = item.id /\ r.qty = q
      /\ \A item \in pageInventory, mode \in PromptInputs :
           (lastResp'.op = "PUT" /\ RowsById(item.id) # {} /\ IsRemoveUnits(mode)
              /\ HandleRemove(item, mode, TRUE))
             => /\ lastResp'.status # 400
                /\ \E r \in inventory' :
                     r.inv_id = item.id /\ r.qty = NewQty(item, RemoveQty(mode))
      /\ \A form \in RestockForms :
           (lastResp'.op = "POST" /\ selectedMachine # 0
              /\ ~ParseInt(form.productId).nan /\ ~ParseInt(form.quantity).nan
              /\ ParseInt(form.quantity).val > 0
              /\ HandleRestock(form))
             => /\ lastResp'.status # 400
                /\ QtyOfPair(inventory', selectedMachine, ParseInt(form.productId).val)
                     = QtyOfPair(inventory, selectedMachine, ParseInt(form.productId).val)
                       + ParseInt(form.quantity).val ]_vars

(***************************************************************************)
(* Properties of the metrics views (SpecMetrics).                          *)
(***************************************************************************)

\* C20: in every state the compatibility view and the primary view agree on
\* the four shared fields (totalProducts = total_products, activeMachines =
\* total_machines, itemsInStock = total_stock_quantity, stockValue =
\* total_stock_value), and so do the metrics the dashboard builds from the
\* compatibility view.
MetricsViewsAgree ==
  LET m == MetricsView(products, machines, inventory)
      d == DashboardMetricsView(products, machines, inventory)
  IN /\ d.totalProducts = m.total_products
     /\ d.activeMachines = m.total_machines
     /\ d.itemsInStock = m.total_stock_quantity
     /\ d.stockValue = m.total_stock_value
     /\ FallbackMetrics(d) = m

\* C20 witness: two machines hold stock, a product was added, and the value
\* of the stock differs from its quantity.
ViewsOverStockedMachines ==
  LET m == MetricsView(products, machines, inventory)
  IN /\ Cardinality(inventory) = 2
     /\ m.total_products = Num(3)
     /\ m.total_stock_quantity.val > 1
     /\ m.total_stock_value.val > m.total_stock_quantity.val
     /\ DashboardMetricsView(products, machines, inventory).stockValue
          = m.total_stock_value

(***************************************************************************)
(* Properties of the aggregate routes on tables at rest (SpecTotals).      *)
(***************************************************************************)
RECURSIVE SumOver(_, _)
SumOver(f, S) ==
  IF S = {} THEN 0
  ELSE LET x == CHOOSE y \in S : TRUE IN f[x] + SumOver(f, S \ {x})

PriceOf(productId) == (CHOOSE p \in products : p.product_id = productId).price

\* C21: the totals of a metrics response computed on tables at rest are the
\* number of products, the number of machines, the sum of the ledger
\* quantities, the sum of quantity times product price, the sum of the sale
\* amounts and the number of sales; every one is a value, never null, and is
\* 0 when its table is empty.
GlobalTotalsMatchTables ==
  aggResp.route = "metrics" =>
    /\ \A f \in {"total_products", "total_machines", "total_stock_quantity",
                 "total_stock_value", "total_revenue", "total_sales_count"} :
         aggResp[f].kind # "null"
    /\ aggResp.total_products.val = Cardinality(products)
    /\ aggResp.total_machines.val = Cardinality(machines)
    /\ aggResp.total_stock_quantity.val =
         SumOver([r \in inventory |-> r.qty], inventory)
    /\ aggResp.total_stock_value.val =
         SumOver([r \in inventory |-> r.qty * PriceOf(r.product_id)], inventory)
    /\ aggResp.total_revenue.val = SumOver([x \in sales |-> x.total_amount], sales)
    /\ aggResp.total_sales_count.val = Cardinality(sales)
    /\ products = {} => aggResp.total_products.val = 0
    /\ machines = {} => aggResp.total_machines.val = 0
    /\ inventory = {} => /\ aggResp.total_stock_quantity.val = 0
                         /\ aggResp.total_stock_value.val = 0
    /\ sales = {} => /\ aggResp.total_revenue.val = 0
                     /\ aggResp.total_sales_count.val = 0

\* a metrics response over empty ledger and sales tables
TotalsOverEmptyTables ==
  /\ aggResp.route = "metrics"
  /\ inventory = {} /\ sales = {}
  /\ aggResp.total_stock_quantity = Decimal(0)
  /\ aggResp.total_revenue = Num(0)

\* a metrics response over several ledger rows and sales
TotalsOverFilledTables ==
  /\ aggResp.route = "metrics"
  /\ Cardinality(inventory) >= 2 /\ Cardinality(sales) = 2
  /\ aggResp.total_stock_quantity.val >= 3
  /\ aggResp.total_revenue.val = 7

RowsOfMachine(machineId) == {r \in inventory : r.machine_id = machineId}

\* C22: a machine-distribution response has exactly one entry for every
\* machine, including machines without ledger records, whose total_qty and
\* total_value are 0; the other entries carry the sum of the machine's
\* quantities and of quantity times price; the entries are in descending
\* order of total_qty.
DistributionCoversEveryMachine ==
  aggResp.route = "machine-distribution" =>
    LET rows == aggResp.rows IN
    /\ Len(rows) = Cardinality(machines)
    /\ \A m \in machines :
         \E i \in 1..Len(rows) :
           /\ rows[i].machine_id = m.machine_id
           /\ rows[i].total_qty =
                SumOver([r \in RowsOfMachine(m.machine_id) |-> r.qty],
                        RowsOfMachine(m.machine_id))
           /\ rows[i].total_value =
                SumOver([r \in RowsOfMachine(m.machine_id) |->
                           r.qty * PriceOf(r.product_id)],
                        RowsOfMachine(m.machine_id))
           /\ RowsOfMachine(m.machine_id) = {} =>
                rows[i].total_qty = 0 /\ rows[i].total_value = 0
    /\ \A i, j \in 1..Len(rows) : i < j => rows[i].total_qty >= rows[j].total_qty

\* a distribution over three machines of which one is stocked, one holds only
\* a zero-quantity record and one has no record
DistributionWithEmptyMachine ==
  /\ aggResp.route = "machine-distribution"
  /\ Len(aggResp.rows) = 3
  /\ aggResp.rows[1].total_qty = 3
  /\ RowsOfMachine(3) = {} /\ RowsOfMachine(2) # {}
  /\ aggResp.rows[3].total_qty = 0
  /\ \E i \in 1..3 : aggResp.rows[i].machine_name = "Machine 3"

(***************************************************************************)
(* Properties of the ranking of sold products (SpecTopSellers).            *)
(***************************************************************************)
SoldIds == {x.product_id : x \in saleItems}
ItemsOf(productId) == {x \in saleItems : x.product_id = productId}
SoldTotal(productId) == SumOver([x \in ItemsOf(productId) |-> x.qty], ItemsOf(productId))
ListedIds ==
  {p.product_id : p \in {q \in products :
     \E i \in 1..Len(aggResp.top_selling_products) :
        aggResp.top_selling_products[i].product_name = q.name}}

\* C23: top_selling_products lists only products with at least one sale
\* line, each with the sum of its sold quantities, in descending order of
\* that sum, and is exactly the first N of the ranking (10 in the full
\* build, 5 in the older one): no product left out has a larger total than
\* a listed one.
TopSellersAreFirstOfRanking ==
  aggResp.route = "metrics" =>
    LET rows == aggResp.top_selling_products IN
    /\ Len(rows) = Min(TopLimit(variant), Cardinality(SoldIds))
    /\ Cardinality(ListedIds) = Len(rows)
    /\ ListedIds \subseteq SoldIds
    /\ \A i \in 1..Len(rows) :
         \E p \in products : /\ p.name = rows[i].product_name
                             /\ rows[i].total_sales = SoldTotal(p.product_id)
    /\ \A i, j \in 1..Len(rows) : i < j => rows[i].total_sales >= rows[j].total_sales
    /\ \A out \in SoldIds \ ListedIds : \A in \in ListedIds :
         SoldTotal(out) <= SoldTotal(in)

\* the full build cuts a ranking of eleven sold products to ten, the first
\* of which sums two sale lines
RankingCutByLimit ==
  /\ aggResp.route = "metrics"
  /\ variant = "rich"
  /\ Cardinality(SoldIds) > RichLimit
  /\ Len(aggResp.top_selling_products) = RichLimit
  /\ aggResp.top_selling_products[1] = [product_name |-> "Chips", total_sales |-> 5]

(***************************************************************************)
(* Properties of concurrent set-quantity requests (SpecSetRace).           *)
(***************************************************************************)
\* C24: set-quantity is last-writer-wins: whatever way the statements of
\* concurrent requests on one record interleave, the stored quantity is the
\* value of the write committed last, never a combination of the values
\* written, and the quantity a response returns was stored at some moment.
LastWriterWins ==
  /\ \A r \in inventory : \A w \in putHist.last :
       w[1] = r.inv_id => r.qty = w[2]
  /\ \A c \in Clients : \A row \in putReqs[c].rows :
       <<row.inv_id, row.qty>> \in putHist.stored

\* two requests on record 1 interleaved: the first writer is answered with
\* the second writer's quantity, which is the one stored
SecondWriterStored ==
  /\ putReqs[1].pc = "done" /\ putReqs[2].pc = "done"
  /\ putReqs[1].inv_id = 1 /\ putReqs[2].inv_id = 1
  /\ putReqs[1].qty = 1 /\ putReqs[2].qty = 2
  /\ \A row \in putReqs[1].rows : row.qty = 2
  /\ putReqs[1].rows # {} /\ putReqs[2].rows # {}
  /\ \A r \in inventory : r.qty = 2

(***************************************************************************)
(* Properties of decrements from two pages (SpecTwoPages).                 *)
(***************************************************************************)
StoredQty(invId) == (CHOOSE r \in inventory : r.inv_id = invId).qty

\* the quantity a decrement by r leaves, written from a page that loaded q
\* while the other page shows the toast t: it is max(0, q - r) whatever is
\* stored, and when the other page has decremented from the same q by r1 it
\* is not the combined max(0, q - r1 - r)
WrittenFromLoaded(q, r, t, after) ==
  /\ after = Max(0, q - r)
  /\ (t.title = "Success" /\ t.removeQty > 0 /\ t.newQty + t.removeQty = q /\ q > r)
       => /\ after \in {Max(0, q - t.removeQty), Max(0, q - r)}
          /\ after # Max(0, q - t.removeQty - r)

\* C25: the decrement of a page is a read-modify-write on the client: the
\* value written is max(0, q - r) for the quantity q the page loaded, so a
\* restock committed since the load is overwritten, and of two decrements
\* from two pages that loaded the same q only one takes effect.
DecrementIsReadModifyWrite ==
  [][ \A mode \in PromptInputs :
        /\ \A item \in pageInventory :
             (lastResp' = Resp("PUT", 200) /\ IsRemoveUnits(mode)
                /\ RowsById(item.id) # {} /\ HandleRemove(item, mode, TRUE))
               => WrittenFromLoaded(item.quantity, RemoveQty(mode),
                                    otherPage.toast, StoredQty(item.id)')
        /\ \A item \in otherPage.inventory :
             (lastResp' = Resp("PUT", 200) /\ IsRemoveUnits(mode)
                /\ RowsById(item.id) # {} /\ OtherHandleRemove(item, mode, TRUE))
               => WrittenFromLoaded(item.quantity, RemoveQty(mode),
                                    toast, StoredQty(item.id)') ]_vars

\* without any restock, both pages loaded quantity 3 and each removed 2: the
\* ledger holds 1
OneOfTwoDecrementsLost ==
  /\ \A pr \in Pairs : lastRestockTime[pr] = 0
  /\ toast = [title |-> "Success", removeQty |-> 2, newQty |-> 1]
  /\ otherPage.toast = [title |-> "Success", removeQty |-> 2, newQty |-> 1]
  /\ lastResp = Resp("PUT", 200)
  /\ \A r \in inventory : r.qty = 1
  /\ inventory # {}

(***************************************************************************)
(* Properties of a metrics request among writes (SpecAggregate).           *)
(***************************************************************************)
QuantityOf(L) == SumOver([r \in L |-> r.qty], L)
ValueOf(L) == SumOver([r \in L |-> r.qty * PriceOf(r.product_id)], L)

\* C26: a metrics request is not atomic; when no write commits while it
\* runs, its response corresponds to the state of the tables: the stock
\* quantity and the stock value are those of the one ledger state the
\* request met, and the counts are those of the tables.
UndisturbedMetricsMatchLedger ==
  (metricsReq.pc = QueriesOfMetrics /\ ~metricsReq.mutated) =>
    /\ Cardinality(metricsReq.seen) = 1
    /\ \A L \in metricsReq.seen :
         /\ aggResp.total_stock_quantity.val = QuantityOf(L)
         /\ aggResp.total_stock_value.val = ValueOf(L)
    /\ aggResp.total_products.val = Cardinality(products)
    /\ aggResp.total_machines.val = Cardinality(machines)
    /\ aggResp.total_revenue.val = SumOver([x \in sales |-> x.total_amount], sales)
    /\ aggResp.total_sales_count.val = Cardinality(sales)

\* a write committed between the quantity query and the value query: the
\* response pairs a stock quantity and a stock value that no ledger state
\* of the request's lifetime has together
TornMetrics ==
  /\ metricsReq.pc = QueriesOfMetrics
  /\ metricsReq.mutated
  /\ aggResp.route = "metrics"
  /\ \A L \in metricsReq.seen :
       ~(/\ aggResp.total_stock_quantity.val = QuantityOf(L)
         /\ aggResp.total_stock_value.val = ValueOf(L))

(***************************************************************************)
(* Properties of the Inventory page's loads (SpecLoads).                   *)
(***************************************************************************)
\* C27: once every load the page started has completed, and none failed,
\* the list displayed is the one loaded for the machine now selected: the
\* response of a load for a machine selected earlier never replaces the
\* later list, in whatever order the responses arrive.
ListIsOfSelectedMachine ==
  (loads.inflight = {} /\ selectedMachine # 0 /\ ~loads.failed) =>
    /\ loads.shownFor = selectedMachine
    /\ \A item \in pageInventory :
         \E r \in inventory : r.inv_id = item.id /\ r.machine_id = selectedMachine

(***************************************************************************)
(* Properties of the requests the Inventory page sends (SpecHandlers).     *)
(***************************************************************************)
\* the handler sent nothing: ledger and latest response are as before
NothingSent == UNCHANGED <<inventory, nextInvId, lastResp>>

InvalidRestock(form) ==
  \/ ParseInt(form.productId).nan \/ ParseInt(form.productId).val = 0
  \/ ParseInt(form.quantity).nan \/ ParseInt(form.quantity).val <= 0

\* C28: the handlers of the Inventory page never send an invalid quantity:
\* on a quantity that is not a number or is negative, on a restock of zero
\* and on a text that is no number, no request is sent and the validation
\* toast is shown; whatever they send leaves every quantity of the ledger
\* non-negative.
InvalidInputSendsNothing ==
  [][ /\ \A item \in pageInventory : \A q \in EditQuantities :
           (SaveEdit(item.id, q) /\ (q.kind # "num" \/ q.val < 0))
             => (NothingSent /\ toast'.title = "Validation")
      /\ \A form \in RestockForms :
           (HandleRestock(form) /\ InvalidRestock(form))
             => (NothingSent /\ toast'.title = "Error")
      /\ \A item \in pageInventory : \A mode \in PromptInputs :
           (HandleRemove(item, mode, TRUE) /\ ~IsRemoveUnits(mode)
              /\ ToLowerCase(Trim(mode.text)) # <<"a", "l", "l">>)
             => (NothingSent /\ toast'.title = "Validation")
      /\ \A r \in inventory' : r.qty >= 0 ]_vars

(***************************************************************************)
(* Properties of requests on rows that are gone (SpecMissing).             *)
(***************************************************************************)
\* C29: a set-quantity or delete-row request for an inv_id that has no
\* record, never created or already deleted, creates no record and leaves
\* the ledger as it is; it is answered with a success status, the
\* set-quantity with no record; deleting a row again changes nothing more.
MissingRowRequestsChangeNothing ==
  [][ /\ \A c \in Clients, invId \in RaceInvIds, qty \in MissingQtyInputs :
           (RowsById(invId) = {} /\ PutUpdateStep(c, invId, qty))
             => UNCHANGED <<inventory, nextInvId>>
      /\ \A c \in Clients :
           (RowsById(putReqs[c].inv_id) = {} /\ PutSelectStep(c))
             => /\ UNCHANGED <<inventory, nextInvId>>
                /\ putReqs'[c].status = 200
                /\ putReqs'[c].rows = {}
      /\ \A invId \in RaceInvIds :
           DeleteInventory(invId)
             => /\ lastResp' = Resp("DELETE", 200)
                /\ DeleteRow(inventory', invId) = inventory'
                /\ RowsById(invId) = {} => UNCHANGED <<inventory, nextInvId>> ]_vars

\* a set-quantity for row 1 was answered after the row had been deleted,
\* and the row was deleted again
SetQuantityOnDeletedRow ==
  /\ putReqs[1].pc = "done" /\ putReqs[1].inv_id = 1
  /\ putReqs[1].status = 200 /\ putReqs[1].rows = {}
  /\ putReqs[2].pc = "done" /\ putReqs[2].inv_id = MaxInvId
  /\ putReqs[2].status = 200 /\ putReqs[2].rows = {}
  /\ lastResp = Resp("DELETE", 200)
  /\ inventory = {}

(***************************************************************************)
(* Properties of the Dashboard's loadAll (SpecDashLive).                   *)
(***************************************************************************)
MetricsPaths == {"/metrics", "/dashboard-metrics"}
SeriesPaths == {"/revenue-trend", "/machine-distribution"}

\* the metrics shown come from an answered /dashboard-metrics
FellBack ==
  /\ "/metrics" \in dash.failed
  /\ "/dashboard-metrics" \in dash.requested \ dash.failed
  /\ dash.pc # "/dashboard-metrics"

\* C30: loadAll always finishes with loading = false, whichever requests
\* fail.  When /metrics fails and /dashboard-metrics answers, the four totals
\* shown are the fields of the compatibility view; a failed /revenue-trend or
\* /machine-distribution leaves that series empty and reports no error; the
\* error is reported exactly when both metrics requests failed, and then
\* neither series has been requested.
LoadAllSettles ==
  /\ <>[](dash.pc = "done" /\ ~dash.loading)
  /\ [](dash.pc = "done" => ~dash.loading)
  /\ [](FellBack =>
          LET fb == DashboardMetricsView(products, machines, inventory)
          IN /\ dash.metrics.total_products = fb.totalProducts
             /\ dash.metrics.total_machines = fb.activeMachines
             /\ dash.metrics.total_stock_quantity = fb.itemsInStock
             /\ dash.metrics.total_stock_value = fb.stockValue
             /\ dash.metrics.total_stock_quantity.val = QuantityOf(inventory)
             /\ dash.metrics.total_stock_value.val = ValueOf(inventory))
  /\ []("/revenue-trend" \in dash.failed => dash.revenueTrend = <<>>)
  /\ []("/machine-distribution" \in dash.failed => dash.machineDist = <<>>)
  /\ [](dash.toast = "Error" <=> MetricsPaths \subseteq dash.failed)
  /\ [](dash.toast = "Error" => dash.requested \cap SeriesPaths = {})

\* loadAll has finished after /metrics and /revenue-trend failed and the two
\* other requests were answered: totals from the compatibility view, no
\* trend, a distribution, no error
FinishedOnCompatibilityView ==
  /\ dash.pc = "done" /\ ~dash.loading
  /\ dash.failed = {"/metrics", "/revenue-trend"}
  /\ dash.toast = ""
  /\ dash.metrics.total_stock_quantity = Decimal(3)
  /\ dash.metrics.total_stock_value = Num(7)
  /\ dash.revenueTrend = <<>>
  /\ Len(dash.machineDist) = 2
  /\ sales # {}

================================================================================
